---- MODULE Spec2Model ----
(***************************************************************************)
(* Model of the metrics endpoint of the quirk backend                      *)
(* (backend/app/api/v1/endpoints/metrics.py): the request flow of          *)
(* get_metrics, the aggregation loop of _fetch_and_calculate_metrics, and  *)
(* the pure helpers _quick_categorize, _fmt, _quick_insights and           *)
(* _empty_metrics; then get_metrics as one step, with the clock, the time  *)
(* zone, the window of the query, _get_default_days and the lru_cache of   *)
(* _cached_metrics_with_tz.  The later sections model the daily analysis   *)
(* (endpoints/browsing.py: save_today_browsing and process_llm_analysis;   *)
(* endpoints/analysis.py: get_today_analysis), the application cache       *)
(* (core/cache.py) and the roast endpoint (generate_roast).                *)
(*                                                                         *)
(* Python values are modelled as follows.  A column of a row returned by   *)
(* the data store is a tagged record: the key is missing from the row      *)
(* ("absent"), the key is present with a JSON null (Python None, "null"),  *)
(* or it carries a value ("val").  Strings are TLA+ strings, compared      *)
(* character by character; dicts that the code iterates in insertion       *)
(* order (sites) are sequences in insertion order.  Times are the          *)
(* non-negative integers of the data model (spec section 3).               *)
(***************************************************************************)
EXTENDS Integers, Sequences, FiniteSets, TLC

VARIABLES
    db,            \* rows the windowed query returns for the user, in store order
    pc,            \* position of the one request being served
    days,          \* the `days` get_metrics passes on (0: no request yet)
    data,          \* result.data of the windowed query
    idx,           \* index in data of the next item of the for loop
    sites,         \* the dict `sites`, as a sequence in insertion order
    cats,          \* the dict `cats`
    total_time,    \* local total_time (ms)
    total_visits,  \* local total_visits
    result,        \* what get_metrics returns
    failures,      \* stages of this request in which an exception was raised
    exc,           \* class of the exception being handled, "" when none
    arg,           \* argument of a helper applied on its own
    ret,           \* what that helper returned
    now,           \* the server's clock, in seconds
    store,         \* the table browsing_history, in store order
    cache,         \* the lru_cache of _cached_metrics_with_tz, least recently used first
    hist,          \* the requests served through the cache, in order
    daily_browsing,  \* the table daily_browsing: raw_data by (user_uuid, date)
    daily_analysis,  \* the table daily_analysis: the row by (user_uuid, date)
    reqs,          \* the save_today_browsing requests in flight, each with its position
    running,       \* the request the event loop is running, 0 when none
    answer,        \* what the last get_today_analysis answered
    analysed,      \* history: the raw_data the stored analysis_data was computed from
    redis_client,  \* RedisCache.redis_client: "none" or "client"
    redis,         \* the keys the Redis server holds
    tasks,         \* the background tasks generate_roast has scheduled
    roasts,        \* the generate_roast requests served, in order
    cres           \* what the last RedisCache method called on its own returned

pvars == <<db, pc, days, data, idx, sites, cats, total_time, total_visits, result, failures, exc>>
cvars == <<arg, ret>>
mvars == <<now, store, cache, hist>>
dvars == <<daily_browsing, daily_analysis, reqs, running, answer, analysed>>
rvars == <<redis_client, redis, tasks, roasts, cres>>
vars == <<pvars, cvars, mvars, dvars, rvars>>

-----------------------------------------------------------------------------
(* Bounds of the model.                                                    *)

\* Largest number of rows the windowed query returns.
MaxRows == 4

\* Largest number of name tokens joined into one platform string.
MaxTokens == 2

-----------------------------------------------------------------------------
(* Python values.                                                          *)

Absent == [k |-> "absent"]
Null == [k |-> "null"]
Val(x) == [k |-> "val", v |-> x]

\* dict.get(key, default): the default only when the key is missing.
Get(field, default) == IF field.k = "absent" THEN Val(default) ELSE field

Min(a, b) == IF a <= b THEN a ELSE b

RECURSIVE SumSeq(_)
SumSeq(s) == IF s = <<>> THEN 0 ELSE Head(s) + SumSeq(Tail(s))

-----------------------------------------------------------------------------
(* Strings: str.lower() and the `in` substring test, on ASCII.             *)

UpperChars == "ABCDEFGHIJKLMNOPQRSTUVWXYZ"
LowerChars == "abcdefghijklmnopqrstuvwxyz"

CharAt(s, i) == SubSeq(s, i, i)

UpperSet == {CharAt(UpperChars, i) : i \in 1..Len(UpperChars)}

LowerOf ==
    [c \in UpperSet |->
        CharAt(LowerChars, CHOOSE i \in 1..Len(UpperChars) : CharAt(UpperChars, i) = c)]

LowerChar(c) == IF c \in UpperSet THEN LowerOf[c] ELSE c

RECURSIVE Lower(_)
Lower(s) == IF Len(s) = 0 THEN "" ELSE LowerChar(CharAt(s, 1)) \o Lower(SubSeq(s, 2, Len(s)))

\* sub in s
Contains(s, sub) ==
    \E i \in 1..(Len(s) - Len(sub) + 1) : SubSeq(s, i, i + Len(sub) - 1) = sub

\* any(x in p for x in subs)
AnyIn(subs, p) == \E x \in subs : Contains(p, x)

-----------------------------------------------------------------------------
(* _quick_categorize                                                       *)

Categories == {"productive", "entertainment", "shopping", "other"}

CodingSites == {"github", "stackoverflow", "vscode", "gitlab", "replit", "codesandbox"}
DocsTools == {"notion", "docs.google", "sheets.google", "trello", "asana", "figma"}
Entertainment == {"youtube", "netflix", "instagram", "twitter", "tiktok", "facebook", "reddit"}
Shopping == {"amazon", "shop", "ebay", "walmart"}
MailEtc == {"gmail", "mail", "linkedin", "outlook", "calendar"}

\* A plausible slip: the platform is matched as given, without lower().
quick_categorize_nolower(platform) ==
    LET p == platform IN
    IF AnyIn(CodingSites, p) THEN "productive"
    ELSE IF AnyIn(DocsTools, p) THEN "productive"
    ELSE IF AnyIn(Entertainment, p) THEN "entertainment"
    ELSE IF AnyIn(Shopping, p) THEN "shopping"
    ELSE IF AnyIn(MailEtc, p) THEN "other"
    ELSE "other"

quick_categorize(platform) ==
    LET p == Lower(platform) IN
    IF AnyIn(CodingSites, p) THEN "productive"
    ELSE IF AnyIn(DocsTools, p) THEN "productive"
    ELSE IF AnyIn(Entertainment, p) THEN "entertainment"
    ELSE IF AnyIn(Shopping, p) THEN "shopping"
    ELSE IF AnyIn(MailEtc, p) THEN "other"
    ELSE "other"

-----------------------------------------------------------------------------
(* _fmt                                                                    *)

MsPerMinute == 60000
MinutesPerHour == 60

\* A plausible slip: the minutes printed whole beside the hours.
fmt_total_minutes(ms) ==
    LET m == ms \div MsPerMinute
        h == m \div MinutesPerHour
    IN  IF h > 0
        THEN ToString(h) \o "h " \o ToString(m) \o "m"
        ELSE ToString(m) \o "m"

fmt(ms) ==
    LET m == ms \div MsPerMinute
        h == m \div MinutesPerHour
    IN  IF h > 0
        THEN ToString(h) \o "h " \o ToString(m % MinutesPerHour) \o "m"
        ELSE ToString(m) \o "m"

-----------------------------------------------------------------------------
(* The percentage int((tv / total_time * 100)).                            *)
(*                                                                         *)
(* tv / total_time is the IEEE-754 double nearest to the quotient, the     *)
(* product with 100 is rounded again, and int() truncates.  For            *)
(* 0 <= tv <= total_time < 2^45 the two roundings move the value by less   *)
(* than 2^-45, which is less than the distance 1/total_time of a           *)
(* non-integral 100*tv/total_time from the next integer: the result is     *)
(* then the floor of the exact value.  When 100*tv/total_time is an        *)
(* integer n, tv/total_time = n/100 and the result is int(n/100*100),      *)
(* which is n except for the three n whose double n/100 times 100 rounds   *)
(* to just below n: int(0.29*100) = 28, int(0.57*100) = 56,                *)
(* int(0.58*100) = 57.                                                     *)

FloatShort == {29, 57, 58}

Raise(e) == [k |-> "raise", exc |-> e]

\* A plausible slip: round() where the code truncates with int().
int_pct_round(tv, total) ==
    IF total = 0 THEN Raise("ZeroDivisionError")
    ELSE LET q == (100 * tv) \div total
             r == (100 * tv) % total
         IN  Val(IF 2 * r >= total THEN q + 1 ELSE q)

int_pct(tv, total) ==
    IF total = 0 THEN Raise("ZeroDivisionError")
    ELSE IF (100 * tv) % total = 0
         THEN LET n == (100 * tv) \div total
              IN  Val(IF n \in FloatShort THEN n - 1 ELSE n)
         ELSE Val((100 * tv) \div total)

\* A plausible slip: the guard on total_time left out.
prod_score_unguarded(c, total) == int_pct(c["productive"], total)

\* line 142: int(...) if total_time > 0 else 0
prod_score_of(c, total) ==
    IF total > 0 THEN int_pct(c["productive"], total) ELSE Val(0)

\* line 152: the percent of one listed category
\* A plausible slip: the percent rounded up, so that a category with any
\* time at all shows at least 1.
cat_percent_ceil(tv, total) ==
    IF total > 0 THEN Val((100 * tv + total - 1) \div total) ELSE Val(0)

cat_percent(tv, total) ==
    IF total > 0 THEN int_pct(tv, total) ELSE Val(0)

-----------------------------------------------------------------------------
(* _quick_insights.  The emoji that open the messages are written as       *)
(* bracketed ASCII names.                                                  *)

AiTools == {"chatgpt", "claude", "openai", "bard"}
SocialMedia == {"instagram", "twitter", "tiktok", "facebook"}
Video == {"youtube", "netflix", "twitch"}
Email == {"gmail", "mail", "outlook"}

CrushingThreshold == 60
BalancedThreshold == 30

CrushingMsg(score) == "[laptop] " \o ToString(score) \o "% productive - crushing it!"
BalancedMsg(score) == "[scales] " \o ToString(score) \o "% productive - balanced"
WastingMsg(score) == "[flag] " \o ToString(score) \o "% productive - mostly time-wasting!"

tier_insight(score) ==
    IF score > CrushingThreshold THEN CrushingMsg(score)
    ELSE IF score > BalancedThreshold THEN BalancedMsg(score)
    ELSE WastingMsg(score)

\* A plausible slip: the video group tested before the AI and social groups.
top_site_insight_video_first(top_site) ==
    LET site_lower == Lower(top_site) IN
    IF AnyIn(Video, site_lower)
    THEN "[flag] Top site: " \o top_site \o " - video binge mode"
    ELSE IF AnyIn(AiTools, site_lower)
    THEN "[flag] Top site: " \o top_site \o " - AI dependency detected"
    ELSE IF AnyIn(SocialMedia, site_lower)
    THEN "[flag] Top site: " \o top_site \o " - social media addict"
    ELSE IF Contains(site_lower, "linkedin")
    THEN "[flag] Top site: " \o top_site \o " - fake networking alert"
    ELSE IF AnyIn(Email, site_lower)
    THEN "[flag] Top site: " \o top_site \o " - inbox checking addiction"
    ELSE "[pin] Top site: " \o top_site

top_site_insight(top_site) ==
    LET site_lower == Lower(top_site) IN
    IF AnyIn(AiTools, site_lower)
    THEN "[flag] Top site: " \o top_site \o " - AI dependency detected"
    ELSE IF AnyIn(SocialMedia, site_lower)
    THEN "[flag] Top site: " \o top_site \o " - social media addict"
    ELSE IF AnyIn(Video, site_lower)
    THEN "[flag] Top site: " \o top_site \o " - video binge mode"
    ELSE IF Contains(site_lower, "linkedin")
    THEN "[flag] Top site: " \o top_site \o " - fake networking alert"
    ELSE IF AnyIn(Email, site_lower)
    THEN "[flag] Top site: " \o top_site \o " - inbox checking addiction"
    ELSE "[pin] Top site: " \o top_site

\* A plausible slip: the lower tier starts below 30 (>= where the code has >).
quick_insights_ge(score, top_site) ==
    << IF score > CrushingThreshold THEN CrushingMsg(score)
       ELSE IF score >= BalancedThreshold THEN BalancedMsg(score)
       ELSE WastingMsg(score) >>
    \o (IF top_site # "" THEN << top_site_insight(top_site) >> ELSE <<>>)

quick_insights(score, top_site) ==
    << tier_insight(score) >>
    \o (IF top_site # "" THEN << top_site_insight(top_site) >> ELSE <<>>)

-----------------------------------------------------------------------------
(* _empty_metrics                                                          *)

NoCategories == [c \in {} |-> 0]

empty_metrics ==
    [overview |-> [total_sites |-> 0, total_visits |-> 0, total_time |-> "0m",
                   productivity_score |-> 0],
     top_sites |-> <<>>,
     categories |-> NoCategories,
     insights |-> << "[chart] No data yet - start browsing!" >>]

-----------------------------------------------------------------------------
(* _fetch_and_calculate_metrics: the aggregation loop and the report.      *)

MsPerSecond == 1000
TopN == 3

ZeroCats == [c \in Categories |-> 0]

\* Index of platform p in the dict sites, 0 when p is not a key.
SiteIndex(s, p) ==
    IF \E i \in 1..Len(s) : s[i].site = p
    THEN CHOOSE i \in 1..Len(s) : s[i].site = p
    ELSE 0

\* A plausible slip: the membership test of line 132 left out, so that every
\* record starts its platform's bucket afresh.
Accumulate_reset(loc, p, v, t) ==
    LET known == SiteIndex(loc.sites, p) # 0
        s1 == IF known THEN loc.sites
              ELSE Append(loc.sites, [site |-> p, v |-> 0, t |-> 0, c |-> quick_categorize(p)])
        i == SiteIndex(s1, p)
        c == s1[i].c
    IN  [loc EXCEPT !.sites = [s1 EXCEPT ![i].v = v, ![i].t = t],
                    !.cats = [loc.cats EXCEPT ![c] = @ + t]]

\* Lines 132-137 for a platform p that is a string.
Accumulate(loc, p, v, t) ==
    LET known == SiteIndex(loc.sites, p) # 0
        s1 == IF known THEN loc.sites
              ELSE Append(loc.sites, [site |-> p, v |-> 0, t |-> 0, c |-> quick_categorize(p)])
        i == SiteIndex(s1, p)
        c == s1[i].c
    IN  [loc EXCEPT !.sites = [s1 EXCEPT ![i].v = @ + v, ![i].t = @ + t],
                    !.cats = [loc.cats EXCEPT ![c] = @ + t]]

\* A plausible slip: the category total is fed only when the bucket is created.
loop_body_once(loc, item) ==
    LET p == Get(item.platform, "unknown")
        v == Get(item.visit_count, 1)
        tf == Get(item.time_spent_seconds, 0)
    IN  IF tf.k = "null" \/ v.k = "null" \/ p.k = "null"
        THEN [loc EXCEPT !.exc = "TypeError"]
        ELSE LET t == tf.v * MsPerSecond
                 l1 == [loc EXCEPT !.total_visits = @ + v.v, !.total_time = @ + t]
                 l2 == Accumulate(l1, p.v, v.v, t)
             IN  IF SiteIndex(loc.sites, p.v) # 0
                 THEN [l2 EXCEPT !.cats = loc.cats]
                 ELSE l2

\* A plausible slip: a record without a platform is passed over.
loop_body_unnamed_dropped(loc, item) ==
    LET p == Get(item.platform, "unknown")
        v == Get(item.visit_count, 1)
        tf == Get(item.time_spent_seconds, 0)
    IN  IF item.platform.k = "absent" THEN loc
        ELSE IF tf.k = "null" \/ v.k = "null"
        THEN [loc EXCEPT !.exc = "TypeError"]
        ELSE LET t == tf.v * MsPerSecond
                 l1 == [loc EXCEPT !.total_visits = @ + v.v, !.total_time = @ + t]
             IN  IF p.k = "null"
                 THEN [l1 EXCEPT !.exc = "AttributeError"]
                 ELSE Accumulate(l1, p.v, v.v, t)

\* One iteration of the for loop (lines 124-137) on the locals loc; exc names
\* the exception the iteration raised, "" when it ran to its end.
loop_body(loc, item) ==
    LET p == Get(item.platform, "unknown")
        v == Get(item.visit_count, 1)
        tf == Get(item.time_spent_seconds, 0)
    IN  IF tf.k = "null"
        THEN \* None * 1000
             [loc EXCEPT !.exc = "TypeError"]
        ELSE LET t == tf.v * MsPerSecond IN
             IF v.k = "null"
             THEN \* total_visits += None
                  [loc EXCEPT !.exc = "TypeError"]
             ELSE LET l1 == [loc EXCEPT !.total_visits = @ + v.v, !.total_time = @ + t] IN
                  IF p.k = "null"
                  THEN \* None is not a key of sites: _quick_categorize(None) calls None.lower()
                       [l1 EXCEPT !.exc = "AttributeError"]
                  ELSE Accumulate(l1, p.v, v.v, t)

\* Where e goes in a sequence sorted by non-increasing t: after every element
\* whose t is at least e.t, so that equal keys keep their order.
InsertStable(sorted, e) ==
    LET k == Cardinality({i \in 1..Len(sorted) : sorted[i].t >= e.t})
    IN  SubSeq(sorted, 1, k) \o <<e>> \o SubSeq(sorted, k + 1, Len(sorted))

\* The same with equal keys put first: what reversing an ascending sort gives.
InsertReversed(sorted, e) ==
    LET k == Cardinality({i \in 1..Len(sorted) : sorted[i].t > e.t})
    IN  SubSeq(sorted, 1, k) \o <<e>> \o SubSeq(sorted, k + 1, Len(sorted))

RECURSIVE SortWith(_, _, _)
SortWith(s, acc, stable) ==
    IF s = <<>> THEN acc
    ELSE SortWith(Tail(s),
                  IF stable THEN InsertStable(acc, Head(s)) ELSE InsertReversed(acc, Head(s)),
                  stable)

\* A plausible slip: reverse=True left out, the smallest time first.
sorted_by_time_ascending(s) ==
    LET o == SortWith(s, <<>>, FALSE)
    IN  [i \in 1..Len(o) |-> o[Len(o) + 1 - i]]

\* A plausible slip: sort ascending and reverse, which turns the ties around.
sorted_by_time_unstable(s) == SortWith(s, <<>>, FALSE)

\* sorted(sites.items(), key=lambda x: x[1]["t"], reverse=True): stable, and
\* reverse=True keeps the original order of equal keys.
sorted_by_time(s) == SortWith(s, <<>>, TRUE)

\* A plausible slip: the slice taken from the wrong end.
top_sites_of_tail(s) ==
    LET o == sorted_by_time(s) IN SubSeq(o, Len(o) - Min(TopN, Len(o)) + 1, Len(o))

\* line 140: [:3]
top_sites_of(s) == SubSeq(sorted_by_time(s), 1, Min(TopN, Len(s)))

\* A plausible slip: the filter on tv left out.
listed_categories_all(c) == DOMAIN c

\* line 152: for c, tv in cats.items() if tv > 0
listed_categories(c) == {k \in DOMAIN c : c[k] > 0}

\* Lines 142-154.  The value is the report, or the exception raised while
\* building it.
build_report(loc) ==
    LET top == top_sites_of(loc.sites)
        score == prod_score_of(loc.cats, loc.total_time)
        listed == listed_categories(loc.cats)
        pct == [c \in listed |-> cat_percent(loc.cats[c], loc.total_time)]
    IN  IF score.k = "raise" THEN score
        ELSE IF \E c \in listed : pct[c].k = "raise" THEN Raise("ZeroDivisionError")
        ELSE Val(
          [overview |-> [total_sites |-> Len(loc.sites),
                         total_visits |-> loc.total_visits,
                         total_time |-> fmt(loc.total_time),
                         productivity_score |-> score.v],
           top_sites |-> [i \in 1..Len(top) |->
                            [site |-> top[i].site, time |-> fmt(top[i].t),
                             visits |-> top[i].v, category |-> top[i].c]],
           categories |-> [c \in listed |->
                            [time |-> fmt(loc.cats[c]), percent |-> pct[c].v]],
           insights |-> quick_insights(score.v, IF top # <<>> THEN top[1].site ELSE "")])

\* A plausible slip: the test for an empty result left out.
no_data_never(d) == FALSE

\* line 115: not result.data
no_data(d) == d = <<>>

-----------------------------------------------------------------------------
(* Exceptions.  The model raises TypeError and AttributeError (a null      *)
(* column, a value of the wrong type), ZeroDivisionError (a percentage),   *)
(* the data store client's error, ZoneInfoNotFoundError and ValueError (a  *)
(* time zone), JSONDecodeError and KeyError (a response of the language    *)
(* model), the OpenAI client's error and the Redis client's error; all of  *)
(* them derive from Exception.                                             *)

ExceptionClasses == {"TypeError", "AttributeError", "ZeroDivisionError", "APIError",
                     "ZoneInfoNotFoundError", "ValueError", "JSONDecodeError",
                     "KeyError", "OpenAIError", "RedisError"}

\* except Exception
catches(e) == e \in ExceptionClasses

\* line 87, in _get_default_days
default_days_handler(e) == catches(e)

\* A plausible slip: the handler narrowed to the errors of a lookup.
fetch_handler_narrow(e) == e \in {"KeyError", "ValueError"}

\* line 156, in _fetch_and_calculate_metrics
fetch_handler(e) == catches(e)

\* line 57, in get_metrics
get_metrics_handler(e) == catches(e)

\* _get_default_days (lines 62-88) on the outcome of its lookup: the user has
\* no row, the oldest row is less than a day old, it is older, or the lookup
\* raised.
LookupOutcomes == {"no_rows", "new", "returning", "error"}

NewUserDays == 1
ReturningUserDays == 3
FullHistoryDays == 7

get_default_days(lookup) ==
    IF lookup = "error"
    THEN IF default_days_handler("APIError")
         THEN Val(ReturningUserDays)
         ELSE Raise("APIError")
    ELSE IF lookup = "no_rows" THEN Val(NewUserDays)
    ELSE IF lookup = "new" THEN Val(NewUserDays)
    ELSE Val(ReturningUserDays)

-----------------------------------------------------------------------------
(* The rows of browsing_history the model draws from.  The select names    *)
(* the three columns, so a row read from the store carries every key, a    *)
(* missing value as null; rows that lack a key are included for the        *)
(* defaults of item.get.  platform is an unconstrained string              *)
(* (Optional[str] in BrowsingHistoryItem), the empty string included.      *)

Row(p, v, t) == [platform |-> p, visit_count |-> v, time_spent_seconds |-> t]

Rows ==
    { Row(Val("github.com"), Val(5), Val(1200)),
      Row(Val("youtube.com"), Val(10), Val(3600)),
      Row(Val("Amazon.com"), Absent, Val(1200)),
      Row(Absent, Val(2), Val(1200)),
      Row(Val(""), Val(1), Absent),
      Row(Val("github.com"), Val(1), Null),
      Row(Null, Val(1), Val(1200)),
      Row(Val("youtube.com"), Null, Val(1200)) }

NoResult == [none |-> TRUE]

-----------------------------------------------------------------------------
(* The request.                                                            *)

InitPipeline ==
    /\ db = <<>>
    /\ pc = "idle"
    /\ days = 0
    /\ data = <<>>
    /\ idx = 0
    /\ sites = <<>>
    /\ cats = ZeroCats
    /\ total_time = 0
    /\ total_visits = 0
    /\ result = NoResult
    /\ failures = {}
    /\ exc = ""

\* The tables daily_browsing and daily_analysis are empty, no request is
\* being served, the Redis client is the None of RedisCache.__init__
\* (cache.py line 17) and the server holds no key.
NoRow == [row |-> FALSE]
EmptyDict == [x \in {} |-> Null]

\* Requests of save_today_browsing in flight at once.
MaxInFlight == 2

Idle == [pc |-> "idle"]

DailyUsers == {"u1"}
Dates == {"2025-01-01"}
DailyKeys == DailyUsers \X Dates

InitDaily ==
    /\ daily_browsing = [k \in DailyKeys |-> NoRow]
    /\ daily_analysis = [k \in DailyKeys |-> NoRow]
    /\ reqs = [p \in 1..MaxInFlight |-> Idle]
    /\ running = 0
    /\ answer = [called |-> FALSE]
    /\ analysed = [k \in DailyKeys |-> NoRow]

InitCache ==
    /\ redis_client = "none"
    /\ redis = EmptyDict
    /\ tasks = <<>>
    /\ roasts = [called |-> FALSE]
    /\ cres = [called |-> FALSE]

InitServices == InitDaily /\ InitCache

\* The clock of the model starts half a bucket before noon of its tenth day;
\* the cache is empty when the module is loaded.
SecondsPerDay == 86400
BucketSeconds == 300

ClockStart == 10 * SecondsPerDay + 43200 - 150

InitServer ==
    /\ now = ClockStart
    /\ store = <<>>
    /\ cache = <<>>
    /\ hist = <<>>

NoCall == [fn |-> "none"]
NotCalled == [called |-> FALSE]
Returned(v) == [called |-> TRUE, value |-> v]

Init == InitPipeline /\ InitServices /\ InitServer /\ arg = NoCall /\ ret = NotCalled

\* The store gains a row of the user inside the window (written by the
\* browser extension, outside this service).
InsertRow(r) ==
    /\ pc = "idle"
    /\ Len(db) < MaxRows
    /\ db' = Append(db, r)
    /\ UNCHANGED <<pc, days, data, idx, sites, cats, total_time, total_visits, result, failures, exc>>
    /\ UNCHANGED <<cvars, mvars, dvars, rvars>>

\* What a caller of get_metrics sees when exception e reaches the handler of
\* get_metrics (lines 57-59).
Outer(e) ==
    IF get_metrics_handler(e)
    THEN [pc |-> "done", result |-> empty_metrics]
    ELSE [pc |-> "raised", result |-> NoResult]

\* get_metrics, lines 43-54, on a cold cache: days as given, or resolved by
\* _get_default_days; then _cached_metrics_with_tz calls
\* _fetch_and_calculate_metrics.
GetMetrics(d, lookup) ==
    /\ pc = "idle"
    \* the lookup is made only when days is None; a user without any row has
    \* none inside the window
    /\ d.k = "val" => lookup = "returning"
    /\ lookup = "no_rows" => db = <<>>
    /\ LET resolved == IF d.k = "null" THEN get_default_days(lookup) ELSE d IN
        /\ failures' = IF d.k = "null" /\ lookup = "error" THEN {"days"} ELSE {}
        /\ IF resolved.k = "raise"
           THEN /\ days' = days
                /\ exc' = resolved.exc
                /\ pc' = Outer(resolved.exc).pc
                /\ result' = Outer(resolved.exc).result
           ELSE /\ days' = resolved.v
                /\ exc' = exc
                /\ pc' = "fetch"
                /\ result' = result
    /\ UNCHANGED <<db, data, idx, sites, cats, total_time, total_visits>>
    /\ UNCHANGED <<cvars, mvars, dvars, rvars>>

\* Lines 96-122: the windowed query, which may raise, and the test for an
\* empty result.
Fetch(ok) ==
    /\ pc = "fetch"
    /\ IF ~ok
       THEN /\ pc' = "except"
            /\ exc' = "APIError"
            /\ failures' = failures \cup {"query"}
            /\ UNCHANGED <<data, idx, result>>
       ELSE /\ data' = db
            /\ failures' = failures
            /\ exc' = exc
            /\ IF no_data(db)
               THEN /\ result' = empty_metrics
                    /\ pc' = "done"
                    /\ idx' = idx
               ELSE /\ pc' = "loop"
                    /\ idx' = 1
                    /\ result' = result
    /\ UNCHANGED <<db, days, sites, cats, total_time, total_visits>>
    /\ UNCHANGED <<cvars, mvars, dvars, rvars>>

Locals == [sites |-> sites, cats |-> cats, total_time |-> total_time,
           total_visits |-> total_visits, exc |-> ""]

\* One iteration of the for loop.
LoopStep ==
    /\ pc = "loop"
    /\ idx <= Len(data)
    /\ LET l == loop_body(Locals, data[idx]) IN
        /\ sites' = l.sites
        /\ cats' = l.cats
        /\ total_time' = l.total_time
        /\ total_visits' = l.total_visits
        /\ exc' = l.exc
        /\ IF l.exc # ""
           THEN /\ pc' = "except"
                /\ failures' = failures \cup {"aggregate"}
                /\ idx' = idx
           ELSE /\ pc' = "loop"
                /\ failures' = failures
                /\ idx' = idx + 1
    /\ UNCHANGED <<db, days, data, result>>
    /\ UNCHANGED <<cvars, mvars, dvars, rvars>>

\* Lines 139-154, after the loop.
BuildReport ==
    /\ pc = "loop"
    /\ idx > Len(data)
    /\ LET r == build_report(Locals) IN
        IF r.k = "raise"
        THEN /\ pc' = "except"
             /\ exc' = r.exc
             /\ failures' = failures \cup {"build"}
             /\ result' = result
        ELSE /\ pc' = "done"
             /\ exc' = exc
             /\ failures' = failures
             /\ result' = r.v
    /\ UNCHANGED <<db, days, data, idx, sites, cats, total_time, total_visits>>
    /\ UNCHANGED <<cvars, mvars, dvars, rvars>>

\* Lines 156-158: the exception raised in the try block of
\* _fetch_and_calculate_metrics meets its handler; what the handler does not
\* catch leaves the function and meets the handler of get_metrics.
Except ==
    /\ pc = "except"
    /\ IF fetch_handler(exc)
       THEN /\ result' = empty_metrics
            /\ failures' = failures
            /\ pc' = "done"
       ELSE /\ result' = Outer(exc).result
            /\ failures' = failures \cup {"fetch_raised"}
            /\ pc' = Outer(exc).pc
    /\ UNCHANGED <<db, days, data, idx, sites, cats, total_time, total_visits, exc>>
    /\ UNCHANGED <<cvars, mvars, dvars, rvars>>

RequestDays == {Null, Val(FullHistoryDays)}

Next ==
    \/ \E r \in Rows : InsertRow(r)
    \/ \E d \in RequestDays, lookup \in LookupOutcomes : GetMetrics(d, lookup)
    \/ \E ok \in BOOLEAN : Fetch(ok)
    \/ LoopStep
    \/ BuildReport
    \/ Except

Spec == Init /\ [][Next]_vars

-----------------------------------------------------------------------------
(* _quick_categorize applied on its own, to platform strings joined from   *)
(* up to MaxTokens tokens.                                                 *)

Tokens == {"github", "GitHub", "amazon", "AMAZON", "YouTube", "shop", "Gmail",
           "docs.google", "x", ".com"}

RECURSIVE Joined(_)
Joined(n) ==
    IF n = 0 THEN {""}
    ELSE Joined(n - 1) \cup {s \o t : s \in Joined(n - 1), t \in Tokens}

PlatformStrings == Joined(MaxTokens)

InitCat ==
    /\ InitPipeline
    /\ InitServices
    /\ InitServer
    /\ arg \in [fn : {"quick_categorize"}, platform : PlatformStrings]
    /\ ret = NotCalled

CallCategorize ==
    /\ arg.fn = "quick_categorize"
    /\ ~ret.called
    /\ ret' = Returned(quick_categorize(arg.platform))
    /\ UNCHANGED <<arg, pvars, mvars, dvars, rvars>>

NextCat == CallCategorize

SpecCat == InitCat /\ [][NextCat]_vars

-----------------------------------------------------------------------------
(* _quick_insights applied on its own, to every score and a few top sites. *)

MaxScore == 100

TopSiteNames == {"", "github.com", "chat.openai.com", "Twitter.com", "youtube.com",
                 "linkedin.com", "mail.google.com", "Claude.ai", "TikTok", "Outlook.com",
                 "unknown", "bard-on-YouTube", "instagram.netflix", "twitch.tv/LinkedIn",
                 "LinkedIn-Gmail"}

InitIns ==
    /\ InitPipeline
    /\ InitServices
    /\ InitServer
    /\ arg \in [fn : {"quick_insights"}, score : 0..MaxScore, top_site : TopSiteNames]
    /\ ret = NotCalled

CallInsights ==
    /\ arg.fn = "quick_insights"
    /\ ~ret.called
    /\ ret' = Returned(quick_insights(arg.score, arg.top_site))
    /\ UNCHANGED <<arg, pvars, mvars, dvars, rvars>>

NextIns == CallInsights

SpecIns == InitIns /\ [][NextIns]_vars

-----------------------------------------------------------------------------
(* _fmt applied on its own: to every whole second up to MaxFmtSeconds, at  *)
(* its first and its last millisecond, and to a few long durations.        *)

MaxFmtSeconds == 3661

LongHours == {9, 10, 99, 100}

FmtInputs ==
    {s * 1000 + o : s \in 0..MaxFmtSeconds, o \in {0, 999}}
    \cup {h * 3600000 + mi * 60000 + 59999 : h \in LongHours, mi \in {0, 59}}

InitFmt ==
    /\ InitPipeline
    /\ InitServices
    /\ InitServer
    /\ arg \in [fn : {"fmt"}, ms : FmtInputs]
    /\ ret = NotCalled

CallFmt ==
    /\ arg.fn = "fmt"
    /\ ~ret.called
    /\ ret' = Returned(fmt(arg.ms))
    /\ UNCHANGED <<arg, pvars, mvars, dvars, rvars>>

NextFmt == CallFmt

SpecFmt == InitFmt /\ [][NextFmt]_vars

-----------------------------------------------------------------------------
(* get_metrics as one step, with the clock, the time zone, the window of   *)
(* the query and the lru_cache.  A stored row carries its user, its        *)
(* columns and its last_visit: an instant in seconds and whether the       *)
(* store hands it out with a UTC offset (an aware datetime once parsed) or *)
(* without one (naive).  The server's local time is UTC, and the store     *)
(* compares a last_visit without offset as UTC.                            *)

\* Largest number of rows in the store.
MaxStored == 2

\* Largest number of requests served.
MaxRequests == 3

\* Largest number of steps of the clock.
MaxTicks == 2

\* Capacity of the lru_cache: 100 in the source (line 18), taken small here
\* so that the least recently used entry is evicted within MaxRequests
\* requests.
maxsize == 1

QueryLimit == 50

Noon == ClockStart + 150

\* ZoneInfo(timezone): the UTC offset of a zone of the tz database;
\* ZoneInfoNotFoundError for a key that is not in it, ValueError for a key
\* that is not well formed.
\* Asia/Kolkata is UTC+05:30 all year.
KnownZones == [z \in {"UTC", "Asia/Kolkata"} |-> IF z = "UTC" THEN 0 ELSE 5 * 3600 + 1800]

ZoneInfo(tz) ==
    IF tz \in DOMAIN KnownZones THEN Val(KnownZones[tz])
    ELSE IF tz = "" THEN Raise("ValueError")
    ELSE Raise("ZoneInfoNotFoundError")

\* A plausible slip: no handler around ZoneInfo(timezone).
zone_handler_none(e) == FALSE

\* line 101
zone_handler(e) == catches(e)

\* Lines 99-102.
user_tz(tz) ==
    LET z == ZoneInfo(tz) IN
    IF z.k = "raise" /\ zone_handler(z.exc) THEN ZoneInfo("UTC") ELSE z

\* Lines 104-106: local midnight, `d` days before the local date of t, as an
\* instant.
cutoff_of(t, off, d) ==
    ((t + off - d * SecondsPerDay) \div SecondsPerDay) * SecondsPerDay - off

RowsOf(st, user) == SelectSeq(st, LAMBDA r : r.user = user)

\* Lines 109-113.
windowed_query(st, user, cutoff) ==
    LET hits == SelectSeq(st, LAMBDA r : r.user = user /\ r.last_visit.at >= cutoff)
    IN  [i \in 1..Min(QueryLimit, Len(hits)) |-> hits[i].item]

NewLocals == [sites |-> <<>>, cats |-> ZeroCats, total_time |-> 0,
              total_visits |-> 0, exc |-> ""]

\* The for loop of lines 124-137, up to the iteration that raises.
RECURSIVE run_loop(_, _)
run_loop(loc, d) ==
    IF d = <<>> \/ loc.exc # "" THEN loc
    ELSE run_loop(loop_body(loc, Head(d)), Tail(d))

\* _fetch_and_calculate_metrics at time t; ok tells whether the windowed
\* query answers.
fetch_and_calculate_metrics(st, user, d, tz, t, ok) ==
    LET z == user_tz(tz)
        body ==
            IF z.k = "raise" THEN z
            ELSE IF ~ok THEN Raise("APIError")
            ELSE LET rows == windowed_query(st, user, cutoff_of(t, z.v, d)) IN
                 IF no_data(rows) THEN Val(empty_metrics)
                 ELSE LET loc == run_loop(NewLocals, rows) IN
                      IF loc.exc # "" THEN Raise(loc.exc) ELSE build_report(loc)
    IN  IF body.k = "raise" /\ fetch_handler(body.exc) THEN Val(empty_metrics) ELSE body

\* Lines 68-85: the oldest row of the user and its age in whole days.
\* datetime.now() is naive: subtracting an aware datetime raises TypeError.
oldest_of(rows) ==
    CHOOSE i \in 1..Len(rows) :
        \A j \in 1..Len(rows) : rows[i].last_visit.at <= rows[j].last_visit.at

\* A plausible slip: a record exactly one day old still counted as new.
lookup_outcome_le(st, user, t, ok) ==
    IF ~ok THEN "error"
    ELSE LET rows == RowsOf(st, user) IN
         IF rows = <<>> THEN "no_rows"
         ELSE LET oldest == rows[oldest_of(rows)].last_visit
                  days_ago == (t - oldest.at) \div SecondsPerDay
              IN  IF oldest.aware THEN "error"
                  ELSE IF days_ago <= 1 THEN "new"
                  ELSE "returning"

lookup_outcome(st, user, t, ok) ==
    IF ~ok THEN "error"
    ELSE LET rows == RowsOf(st, user) IN
         IF rows = <<>> THEN "no_rows"
         ELSE LET oldest == rows[oldest_of(rows)].last_visit
                  days_ago == (t - oldest.at) \div SecondsPerDay
              IN  IF oldest.aware THEN "error"
                  ELSE IF days_ago < 1 THEN "new"
                  ELSE "returning"

\* A plausible slip: the time bucket left out of the key.
cache_key_no_bucket(user, d, tz, t) ==
    user \o "_" \o ToString(d) \o "_" \o tz \o "_"

\* line 52
cache_key(user, d, tz, t) ==
    user \o "_" \o ToString(d) \o "_" \o tz \o "_" \o ToString(t \div BucketSeconds)

\* The arguments of _cached_metrics_with_tz, which lru_cache keys on.
KeyOf(user, d, tz, t) == <<user, d, tz, cache_key(user, d, tz, t)>>

CacheIndex(c, key) ==
    IF \E i \in 1..Len(c) : c[i].key = key
    THEN CHOOSE i \in 1..Len(c) : c[i].key = key
    ELSE 0

\* A hit makes the entry the most recently used.
lru_touch(c, i) == SubSeq(c, 1, i - 1) \o SubSeq(c, i + 1, Len(c)) \o << c[i] >>

\* A plausible slip: an empty report is not kept.
lru_insert_skip_empty(c, key, value) ==
    IF value = empty_metrics THEN c
    ELSE LET c1 == Append(c, [key |-> key, value |-> value])
         IN  IF Len(c1) > maxsize THEN Tail(c1) ELSE c1

\* A miss stores the value; a full cache drops its least recently used entry.
lru_insert(c, key, value) ==
    LET c1 == Append(c, [key |-> key, value |-> value])
    IN  IF Len(c1) > maxsize THEN Tail(c1) ELSE c1

\* get_metrics (lines 43-59) for user, days as asked (d) and timezone tz.
\* ok_lookup and ok_query tell whether the store answers the query of
\* _get_default_days and the windowed query.
Request(user, d, tz, ok_lookup, ok_query) ==
    /\ d.k = "val" => ok_lookup
    /\ LET resolved == IF d.k = "null"
                       THEN get_default_days(lookup_outcome(store, user, now, ok_lookup))
                       ELSE d
           served(dd, hit, ok, report) ==
               [user |-> user, asked |-> d, days |-> dd, tz |-> tz, at |-> now,
                looked |-> d.k = "null", lookup_ok |-> ok_lookup,
                queried |-> ~hit, query_ok |-> ok, report |-> report]
       IN  IF resolved.k = "raise"
           THEN /\ ok_query
                /\ cache' = cache
                /\ hist' = Append(hist, served(0, TRUE, TRUE, Outer(resolved.exc).result))
           ELSE LET key == KeyOf(user, resolved.v, tz, now)
                    i == CacheIndex(cache, key)
                    computed == fetch_and_calculate_metrics(store, user, resolved.v, tz,
                                                            now, ok_query)
                IN  IF i # 0
                    THEN /\ ok_query
                         /\ cache' = lru_touch(cache, i)
                         /\ hist' = Append(hist, served(resolved.v, TRUE, TRUE, cache[i].value))
                    ELSE IF computed.k = "raise"
                    THEN /\ cache' = cache
                         /\ hist' = Append(hist, served(resolved.v, FALSE, ok_query,
                                                        Outer(computed.exc).result))
                    ELSE /\ cache' = lru_insert(cache, key, computed.v)
                         /\ hist' = Append(hist, served(resolved.v, FALSE, ok_query,
                                                        computed.v))
    /\ UNCHANGED <<now, store, pvars, cvars, dvars, rvars>>

Users == {"u1", "u2"}
Zones == {"UTC", "Asia/Kolkata", "Mars/Phobos", ""}

Stored(user, item, at, aware) ==
    [user |-> user, item |-> item, last_visit |-> [at |-> at, aware |-> aware]]

\* Rows an hour old, exactly a day old at noon, a week old (inside the
\* seven-day window of Asia/Kolkata and outside that of UTC), two hours old
\* with an offset, and a row of the other user.
StoredRows ==
    { Stored("u1", Row(Val("github.com"), Val(5), Val(1200)), Noon - 3600, FALSE),
      Stored("u1", Row(Val("youtube.com"), Val(10), Val(3600)), Noon - SecondsPerDay, FALSE),
      Stored("u1", Row(Val("Amazon.com"), Absent, Val(1200)), 3 * SecondsPerDay - 10000, FALSE),
      Stored("u1", Row(Val("github.com"), Val(5), Val(1200)), Noon - 7200, TRUE),
      Stored("u2", Row(Val("youtube.com"), Val(10), Val(3600)), Noon - 3600, FALSE) }

Stores == UNION {[1..n -> StoredRows] : n \in 0..MaxStored}

-----------------------------------------------------------------------------
(* One request on a cold cache, on every store and just before and at      *)
(* noon.                                                                   *)

InitWin ==
    /\ InitPipeline
    /\ InitServices
    /\ arg = NoCall /\ ret = NotCalled
    /\ now \in {Noon - 1, Noon}
    /\ store \in Stores
    /\ cache = <<>>
    /\ hist = <<>>

FirstRequest(user, d, tz, ok_lookup, ok_query) ==
    /\ hist = <<>>
    /\ Request(user, d, tz, ok_lookup, ok_query)

NextWin ==
    \E user \in Users, d \in RequestDays, tz \in Zones, ok_lookup, ok_query \in BOOLEAN :
        FirstRequest(user, d, tz, ok_lookup, ok_query)

SpecWin == InitWin /\ [][NextWin]_vars

-----------------------------------------------------------------------------
(* Several requests through the cache, while the clock advances and the    *)
(* store gains rows.                                                       *)

MemoRows ==
    { Stored("u1", Row(Val("github.com"), Val(5), Val(1200)), Noon - 3600, FALSE) }

MemoRequests ==
    { <<"u1", Null, "UTC">>, <<"u1", Val(FullHistoryDays), "UTC">>,
      <<"u2", Val(FullHistoryDays), "UTC">>, <<"u1", Val(FullHistoryDays), "Mars/Phobos">> }

\* Half a bucket passes.
Tick ==
    /\ now < ClockStart + MaxTicks * (BucketSeconds \div 2)
    /\ now' = now + (BucketSeconds \div 2)
    /\ UNCHANGED <<store, cache, hist, pvars, cvars, dvars, rvars>>

\* The browser extension's upload adds a row the store does not hold yet.
StoreRow(r) ==
    /\ \A i \in 1..Len(store) : store[i] # r
    /\ store' = Append(store, r)
    /\ UNCHANGED <<now, cache, hist, pvars, cvars, dvars, rvars>>

\* The query of _get_default_days answers; the windowed query may not.
NextRequest(q, ok_query) ==
    /\ Len(hist) < MaxRequests
    /\ Request(q[1], q[2], q[3], TRUE, ok_query)

NextMemo ==
    \/ Tick
    \/ \E r \in MemoRows : StoreRow(r)
    \/ \E q \in MemoRequests, ok_query \in BOOLEAN : NextRequest(q, ok_query)

SpecMemo == Init /\ [][NextMemo]_vars

-----------------------------------------------------------------------------
(* The daily analysis: save_today_browsing and process_llm_analysis        *)
(* (backend/app/api/v1/endpoints/browsing.py) and get_today_analysis       *)
(* (backend/app/api/v1/endpoints/analysis.py).  The endpoints are          *)
(* coroutines of one event loop: a request runs alone from its start to    *)
(* the await of the language model (browsing.py line 93), and again from   *)
(* the model's answer to its return; `running` is the request that holds   *)
(* the loop.  The calls of the data store are synchronous and each of them *)
(* may fail.  A JSON object is a function from its keys to tagged values.  *)

DictGet(d, key) == IF key \in DOMAIN d THEN d[key] ELSE Null

Site(h, n) == [hostname |-> h, visit_count |-> n]

RawDatas ==
    { <<>>,
      << Site("github.com", 5) >>,
      << Site("youtube.com", 10), Site("github.com", 1) >> }

Bodies == [user_uuid : DailyUsers, date : Dates, raw_data : RawDatas]

RowKey(user_uuid, date) == <<user_uuid, date>>

\* Lines 67-76: the prompt names the first 15 sites.
SummaryLimit == 15

sites_summary(raw_data) ==
    [i \in 1..Min(SummaryLimit, Len(raw_data)) |->
        [hostname |-> raw_data[i].hostname, visits |-> raw_data[i].visit_count]]

\* What the language model may answer to a prompt: an error of the client,
\* or a text.  A text is a JSON object in the format asked for, an object
\* without a score, the empty object, an object with keys of its own, the
\* first of them inside a ```json fence, a JSON array, or no JSON at all.
Text(fence, payload) == [k |-> "text", fence |-> fence, payload |-> payload]
JsonObject(o) == [json |-> "object", v |-> o]
JsonArray == [json |-> "array"]
NotJson == [json |-> "none"]

AsAsked(prompt) == ("productivity_score" :> Val(67)) @@ ("summary" :> Val(prompt))
NoScore(prompt) == "summary" :> Val(prompt)
OwnKeys(prompt) ==
    ("productivity_score" :> Val(40)) @@ ("summary" :> Val(prompt)) @@ ("status" :> Val("great"))

LLMAnswers(prompt) ==
    { Raise("OpenAIError"),
      Text("none", JsonObject(AsAsked(prompt))),
      Text("json", JsonObject(AsAsked(prompt))),
      Text("none", JsonObject(NoScore(prompt))),
      Text("none", JsonObject(EmptyDict)),
      Text("none", JsonObject(OwnKeys(prompt))),
      Text("none", JsonArray),
      Text("none", NotJson) }

AllAnswers == UNION {LLMAnswers(sites_summary(raw_data)) : raw_data \in RawDatas}

\* Lines 103-106: the text inside the fence, if there is one.
strip_fence(text) == text.payload

\* Lines 108-109: json.loads, then analysis_data.get for the log line, which
\* only a dict has.
parse_response(text) ==
    LET payload == strip_fence(text) IN
    IF payload.json = "none" THEN Raise("JSONDecodeError")
    ELSE IF payload.json # "object" THEN Raise("AttributeError")
    ELSE Val(payload.v)

\* A plausible slip: only the parse error handled.
analysis_handler_json_only(e) == e = "JSONDecodeError"

\* line 130: except Exception
analysis_handler(e) == catches(e)

\* line 138: a bare except, which catches everything
mark_failed_handler(e) == TRUE

\* line 219: except Exception, around the call of process_llm_analysis
llm_step_handler(e) == catches(e)

\* A plausible slip: the result of the second future not looked at.
upserts_failed_first_only(browsing, placeholder) == browsing = "failed"

\* Lines 206-212: either future's result() raises.
upserts_failed(browsing, placeholder) == browsing = "failed" \/ placeholder = "failed"

\* A plausible slip: the placeholder marks the row as being processed.
analysis_entry_processing(user_uuid, date) ==
    [processing_status |-> "processing", analysis_data |-> EmptyDict]

\* Lines 191-197: the placeholder.
analysis_entry(user_uuid, date) ==
    [processing_status |-> "pending", analysis_data |-> EmptyDict]

\* line 198: upsert on (user_uuid, date).  A new row gets the entry's
\* columns and nulls; an existing row keeps the columns the entry lacks.
upsert_analysis(row, entry) ==
    IF row.row
    THEN [row EXCEPT !.processing_status = entry.processing_status,
                     !.analysis_data = entry.analysis_data]
    ELSE [row |-> TRUE, processing_status |-> entry.processing_status,
          analysis_data |-> entry.analysis_data, productivity_score |-> Null]

\* Lines 117-123: the update of the rows of (user_uuid, date), none when
\* there is no row.
update_completed(row, analysis_data) ==
    IF row.row
    THEN [row EXCEPT !.productivity_score = DictGet(analysis_data, "productivity_score"),
                     !.analysis_data = analysis_data,
                     !.processing_status = "completed"]
    ELSE row

\* Lines 134-137.
update_failed(row) ==
    IF row.row THEN [row EXCEPT !.processing_status = "failed"] ELSE row

HttpError(code) == [http |-> code]
Ok(payload) == [http |-> 200, payload |-> payload]

\* Lines 223-228 of browsing.py.
saved_response(body) ==
    Ok([success |-> TRUE, date |-> body.date, items_count |-> Len(body.raw_data)])

NewRequest(body) ==
    [body |-> body, pc |-> "upserts", browsing |-> "no", placeholder |-> "no",
     started |-> FALSE, raw |-> <<>>, text |-> NoResult, analysis_data |-> EmptyDict,
     exc |-> "", marked |-> FALSE, propagated |-> ""]

At(p, where) == running = p /\ reqs[p].pc = where

ReqKey(p) == RowKey(reqs[p].body.user_uuid, reqs[p].body.date)

\* save_today_browsing is called (lines 170-179).
SaveToday(p, body) ==
    /\ running = 0
    /\ reqs[p] = Idle
    /\ \A q \in 1..(p - 1) : reqs[q] # Idle
    /\ reqs' = [reqs EXCEPT ![p] = NewRequest(body)]
    /\ running' = p
    /\ UNCHANGED <<daily_browsing, daily_analysis, answer, analysed>>
    /\ UNCHANGED <<pvars, cvars, mvars, rvars>>

\* The thread of save_browsing (lines 187-188).
SaveBrowsing(p, ok) ==
    /\ At(p, "upserts")
    /\ reqs[p].browsing = "no"
    /\ daily_browsing' =
          IF ok THEN [daily_browsing EXCEPT ![ReqKey(p)] =
                         [row |-> TRUE, raw_data |-> reqs[p].body.raw_data]]
          ELSE daily_browsing
    /\ reqs' = [reqs EXCEPT ![p].browsing = IF ok THEN "ok" ELSE "failed"]
    /\ UNCHANGED <<daily_analysis, running, answer, analysed>>
    /\ UNCHANGED <<pvars, cvars, mvars, rvars>>

\* The thread of create_placeholder (lines 190-198).
CreatePlaceholder(p, ok) ==
    /\ At(p, "upserts")
    /\ reqs[p].placeholder = "no"
    /\ LET k == ReqKey(p)
           entry == analysis_entry(k[1], k[2])
       IN  /\ daily_analysis' =
                 IF ok THEN [daily_analysis EXCEPT ![k] = upsert_analysis(@, entry)]
                 ELSE daily_analysis
           /\ analysed' = IF ok THEN [analysed EXCEPT ![k] = NoRow] ELSE analysed
    /\ reqs' = [reqs EXCEPT ![p].placeholder = IF ok THEN "ok" ELSE "failed"]
    /\ UNCHANGED <<daily_browsing, running, answer>>
    /\ UNCHANGED <<pvars, cvars, mvars, rvars>>

\* Lines 201-218: both futures are done when the with block is left; a
\* failed one takes the request to its return (line 212), otherwise
\* process_llm_analysis is called (line 218).
Join(p) ==
    /\ At(p, "upserts")
    /\ reqs[p].browsing # "no"
    /\ reqs[p].placeholder # "no"
    /\ IF upserts_failed(reqs[p].browsing, reqs[p].placeholder)
       THEN reqs' = [reqs EXCEPT ![p].pc = "return"]
       ELSE reqs' = [reqs EXCEPT ![p].pc = "fetch", ![p].started = TRUE]
    /\ UNCHANGED running
    /\ UNCHANGED <<daily_browsing, daily_analysis, answer, analysed>>
    /\ UNCHANGED <<pvars, cvars, mvars, rvars>>

\* process_llm_analysis, lines 29-47: the raw data is read back.
FetchRaw(p, ok) ==
    /\ At(p, "fetch")
    /\ LET row == daily_browsing[ReqKey(p)] IN
       reqs' = IF ~ok THEN [reqs EXCEPT ![p].pc = "handler", ![p].exc = "APIError"]
               ELSE IF ~row.row THEN [reqs EXCEPT ![p].pc = "return"]
               ELSE IF row.raw_data = <<>> THEN [reqs EXCEPT ![p].pc = "return"]
               ELSE [reqs EXCEPT ![p].pc = "llm", ![p].raw = row.raw_data]
    /\ UNCHANGED <<daily_browsing, daily_analysis, running, answer, analysed>>
    /\ UNCHANGED <<pvars, cvars, mvars, rvars>>

\* Lines 79-93: the client is built and the model is called; the coroutine
\* waits for the answer and leaves the event loop to other requests.
CallLLM(p, ok) ==
    /\ At(p, "llm")
    /\ IF ok
       THEN /\ reqs' = [reqs EXCEPT ![p].pc = "awaiting"]
            /\ running' = 0
       ELSE /\ reqs' = [reqs EXCEPT ![p].pc = "handler", ![p].exc = "OpenAIError"]
            /\ running' = running
    /\ UNCHANGED <<daily_browsing, daily_analysis, answer, analysed>>
    /\ UNCHANGED <<pvars, cvars, mvars, rvars>>

\* Lines 93-99: the answer arrives and the coroutine is resumed.
LLMReturns(p, a) ==
    /\ running = 0
    /\ reqs[p].pc = "awaiting"
    /\ a \in LLMAnswers(sites_summary(reqs[p].raw))
    /\ running' = p
    /\ reqs' = IF a.k = "raise"
               THEN [reqs EXCEPT ![p].pc = "handler", ![p].exc = a.exc]
               ELSE [reqs EXCEPT ![p].pc = "parse", ![p].text = a]
    /\ UNCHANGED <<daily_browsing, daily_analysis, answer, analysed>>
    /\ UNCHANGED <<pvars, cvars, mvars, rvars>>

\* Lines 101-113.
Parse(p) ==
    /\ At(p, "parse")
    /\ LET parsed == parse_response(reqs[p].text) IN
       reqs' = IF parsed.k = "raise"
               THEN [reqs EXCEPT ![p].pc = "handler", ![p].exc = parsed.exc]
               ELSE [reqs EXCEPT ![p].pc = "save", ![p].analysis_data = parsed.v]
    /\ UNCHANGED <<daily_browsing, daily_analysis, running, answer, analysed>>
    /\ UNCHANGED <<pvars, cvars, mvars, rvars>>

\* Lines 115-128.
SaveResult(p, ok) ==
    /\ At(p, "save")
    /\ LET k == ReqKey(p) IN
       IF ok
       THEN /\ daily_analysis' =
                  [daily_analysis EXCEPT ![k] = update_completed(@, reqs[p].analysis_data)]
            /\ analysed' =
                  IF daily_analysis[k].row
                  THEN [analysed EXCEPT ![k] =
                           [row |-> TRUE, raw_data |-> reqs[p].raw,
                            analysis_data |-> reqs[p].analysis_data]]
                  ELSE analysed
            /\ reqs' = [reqs EXCEPT ![p].pc = "return"]
       ELSE /\ reqs' = [reqs EXCEPT ![p].pc = "handler", ![p].exc = "APIError"]
            /\ UNCHANGED <<daily_analysis, analysed>>
    /\ UNCHANGED <<daily_browsing, running, answer>>
    /\ UNCHANGED <<pvars, cvars, mvars, rvars>>

\* Line 130: the exception reaches the handler of process_llm_analysis, or
\* leaves the function.
Handler(p) ==
    /\ At(p, "handler")
    /\ reqs' = IF analysis_handler(reqs[p].exc)
               THEN [reqs EXCEPT ![p].pc = "mark"]
               ELSE [reqs EXCEPT ![p].pc = "return", ![p].propagated = reqs[p].exc]
    /\ UNCHANGED <<daily_browsing, daily_analysis, running, answer, analysed>>
    /\ UNCHANGED <<pvars, cvars, mvars, rvars>>

\* Lines 132-139: the row is marked as failed, if the data store answers.
MarkFailed(p, ok) ==
    /\ At(p, "mark")
    /\ ok \/ mark_failed_handler("APIError")
    /\ daily_analysis' =
          IF ok THEN [daily_analysis EXCEPT ![ReqKey(p)] = update_failed(@)]
          ELSE daily_analysis
    /\ reqs' = [reqs EXCEPT ![p].pc = "return", ![p].marked = TRUE]
    /\ UNCHANGED <<daily_browsing, running, answer, analysed>>
    /\ UNCHANGED <<pvars, cvars, mvars, rvars>>

\* What a request at its return answers: HTTP 500 when an upsert failed
\* (line 212) or an exception got past line 219 (line 234), else the
\* confirmation of lines 223-228.
response_of(r) ==
    IF upserts_failed(r.browsing, r.placeholder) THEN HttpError(500)
    ELSE IF r.propagated # "" /\ ~llm_step_handler(r.propagated) THEN HttpError(500)
    ELSE saved_response(r.body)

\* Lines 212 and 223-234: the request returns response_of(reqs[p]) and is
\* over.
Respond(p) ==
    /\ At(p, "return")
    /\ reqs' = [reqs EXCEPT ![p] = Idle]
    /\ running' = 0
    /\ UNCHANGED <<daily_browsing, daily_analysis, answer, analysed>>
    /\ UNCHANGED <<pvars, cvars, mvars, rvars>>

PendingMsg == "Analysis queued. Check back in a few seconds."
ProcessingMsg == "AI is analyzing your data. Almost done!"

\* get_today_analysis (analysis.py lines 207-254) on the row of today, the
\* value being the response.  The payload of a completed row is a dict
\* display, in which the keys of analysis_data come last.
today_analysis(row, today) ==
    IF ~row.row THEN HttpError(404)
    ELSE IF row.processing_status = "pending"
    THEN Ok(("status" :> Val("pending")) @@ ("message" :> Val(PendingMsg)))
    ELSE IF row.processing_status = "processing"
    THEN Ok(("status" :> Val("processing")) @@ ("message" :> Val(ProcessingMsg)))
    ELSE IF row.processing_status = "failed" THEN HttpError(500)
    ELSE Ok(row.analysis_data @@
            (("status" :> Val("completed")) @@ ("date" :> Val(today)) @@
             ("productivity_score" :> row.productivity_score)))

\* get_today_analysis has no await: it runs while no other request does.
GetTodayAnalysis(user_uuid, today) ==
    /\ running = 0
    /\ answer' = [called |-> TRUE, user_uuid |-> user_uuid, date |-> today,
                  row |-> daily_analysis[RowKey(user_uuid, today)],
                  response |-> today_analysis(daily_analysis[RowKey(user_uuid, today)], today)]
    /\ UNCHANGED <<daily_browsing, daily_analysis, reqs, running, analysed>>
    /\ UNCHANGED <<pvars, cvars, mvars, rvars>>

NextDaily ==
    \/ \E p \in 1..MaxInFlight, body \in Bodies : SaveToday(p, body)
    \/ \E p \in 1..MaxInFlight, ok \in BOOLEAN : SaveBrowsing(p, ok)
    \/ \E p \in 1..MaxInFlight, ok \in BOOLEAN : CreatePlaceholder(p, ok)
    \/ \E p \in 1..MaxInFlight : Join(p)
    \/ \E p \in 1..MaxInFlight, ok \in BOOLEAN : FetchRaw(p, ok)
    \/ \E p \in 1..MaxInFlight, ok \in BOOLEAN : CallLLM(p, ok)
    \/ \E p \in 1..MaxInFlight, a \in AllAnswers : LLMReturns(p, a)
    \/ \E p \in 1..MaxInFlight : Parse(p)
    \/ \E p \in 1..MaxInFlight, ok \in BOOLEAN : SaveResult(p, ok)
    \/ \E p \in 1..MaxInFlight : Handler(p)
    \/ \E p \in 1..MaxInFlight, ok \in BOOLEAN : MarkFailed(p, ok)
    \/ \E p \in 1..MaxInFlight : Respond(p)

SpecDaily == Init /\ [][NextDaily]_vars

-----------------------------------------------------------------------------
(* get_today_analysis on its own, on every row the table may hold for      *)
(* today: the rows this service writes, and rows with a status written by  *)
(* others ("processing", which the endpoint provides for, and "queued").   *)

Today == "2025-01-01"

WithDate(prompt) == AsAsked(prompt) @@ ("date" :> Val("1999-12-31"))

TodayRows ==
    { NoRow } \cup
    [row : {TRUE},
     processing_status : {"pending", "processing", "failed", "completed", "queued"},
     analysis_data : LET prompt == sites_summary(<< Site("github.com", 5) >>)
                     IN  {EmptyDict, AsAsked(prompt), NoScore(prompt), OwnKeys(prompt),
                          WithDate(prompt)},
     productivity_score : {Null, Val(67), Val(40)}]

InitToday ==
    /\ InitPipeline
    /\ InitServer
    /\ InitCache
    /\ arg = NoCall /\ ret = NotCalled
    /\ daily_browsing = [k \in DailyKeys |-> NoRow]
    /\ \E row \in TodayRows :
          daily_analysis = [k \in DailyKeys |-> IF k[2] = Today THEN row ELSE NoRow]
    /\ reqs = [p \in 1..MaxInFlight |-> Idle]
    /\ running = 0
    /\ answer = [called |-> FALSE]
    /\ analysed = [k \in DailyKeys |-> NoRow]

NextToday == \E user_uuid \in DailyUsers : GetTodayAnalysis(user_uuid, Today)

SpecToday == InitToday /\ [][NextToday]_vars

-----------------------------------------------------------------------------
(* The report of lines 142-153 for one row of each category, over every    *)
(* split of the time between them.                                         *)

\* Largest time_spent_seconds of the productive, the entertainment, the
\* shopping and the other row.
MaxProductive == 29
MaxEntertainment == 58
MaxShopping == 13
MaxOther == 1

\* result.data: one row for each category, with times[i] seconds.
PctRows(times) ==
    << Row(Val("github.com"), Val(1), Val(times[1])),
       Row(Val("youtube.com"), Val(1), Val(times[2])),
       Row(Val("amazon.com"), Val(1), Val(times[3])),
       Row(Val("example.org"), Val(1), Val(times[4])) >>

\* The locals after the loop of lines 124-137.
PctLocals(times) == run_loop(NewLocals, PctRows(times))

InitPct ==
    /\ InitPipeline
    /\ InitServices
    /\ InitServer
    /\ arg \in [fn : {"report"},
                times : (0..MaxProductive) \X (0..MaxEntertainment)
                            \X (0..MaxShopping) \X (0..MaxOther)]
    /\ ret = NotCalled

CallReport ==
    /\ arg.fn = "report"
    /\ ~ret.called
    /\ ret' = Returned(build_report(PctLocals(arg.times)))
    /\ UNCHANGED <<arg, pvars, mvars, dvars, rvars>>

NextPct == CallReport

SpecPct == InitPct /\ [][NextPct]_vars

-----------------------------------------------------------------------------
(* The application cache (backend/app/core/cache.py) and the roast endpoint *)
(* (generate_roast of analysis.py).  redis_client is the attribute of the  *)
(* one RedisCache instance; redis is the store of the Redis server, a dict *)
(* from key to the text stored and its expiry.  A text is the JSON of a    *)
(* value; a value is JSON serialisable unless it holds a datetime.         *)

MaxRoasts == 2

RoastTTL == 3600
OtherExpire == 60

CacheUsers == {"u1"}

\* analysis.py line 60: f"roast:{user_uuid}"
roast_key(user_uuid) == <<"roast", user_uuid>>

\* analysis.py line 133: f"self_discovery:{user_uuid}"
discovery_key(user_uuid) == <<"self_discovery", user_uuid>>

CacheKeys == {roast_key(user_uuid) : user_uuid \in CacheUsers}
                 \cup {discovery_key(user_uuid) : user_uuid \in CacheUsers}

\* datetime.utcnow() and the ISO text of one.
Datetime(t) == [type |-> "datetime", at |-> t]
IsoText(t) == [type |-> "str", at |-> t]

\* response.dict() of a RoastAnalysisResponse (schemas.py lines 113-122);
\* created_at stays a datetime.
RoastDict(analysis_id, personality_name, created_at) ==
    [mode |-> "roast", personality_name |-> personality_name,
     analysis_id |-> analysis_id, created_at |-> created_at]

\* RoastAnalysisResponse(**cached): created_at is parsed to a datetime.
RoastAnalysisResponse(d) ==
    [d EXCEPT !.created_at = Datetime(d.created_at.at)]

\* json.dumps(value): TypeError on a datetime.
json_dumps(value) ==
    IF value.created_at.type = "datetime" THEN Raise("TypeError")
    ELSE Val([json |-> value])

\* json.loads(text)
json_loads(text) == text.json

\* Python's True and False as results.
True == [k |-> "true"]
False == [k |-> "false"]

\* The result of a RedisCache method: what it returns, the store after it,
\* whether a command was sent to the server, and the exception its handler
\* caught ("": none).
CacheResult(returned, server, sent, caught) ==
    [result |-> returned, kept |-> server, sent |-> sent, caught |-> caught]

\* A plausible slip: set without its try, so that an error of json.dumps
\* or of the client reaches the caller.
cache_set_unhandled(client, server, key, value, expire, err) ==
    IF client = "none" THEN CacheResult(False, server, FALSE, "")
    ELSE LET text == json_dumps(value) IN
         IF text.k = "raise" THEN CacheResult(text, server, FALSE, "")
         ELSE IF err THEN CacheResult(Raise("RedisError"), server, TRUE, "")
         ELSE CacheResult(True, (key :> [value |-> text.v, ex |-> expire]) @@ server, TRUE, "")

\* RedisCache.get, lines 39-51.  err: the client raises.
cache_get(client, server, key, err) ==
    IF client = "none" THEN CacheResult(Null, server, FALSE, "")
    ELSE IF err THEN CacheResult(Null, server, TRUE, "RedisError")
    ELSE IF key \notin DOMAIN server THEN CacheResult(Null, server, TRUE, "")
    ELSE CacheResult(Val(json_loads(server[key].value)), server, TRUE, "")

\* RedisCache.set, lines 53-67.  json.dumps is evaluated before the call
\* of the client.
cache_set(client, server, key, value, expire, err) ==
    IF client = "none" THEN CacheResult(False, server, FALSE, "")
    ELSE LET text == json_dumps(value) IN
         IF text.k = "raise" THEN CacheResult(False, server, FALSE, "TypeError")
         ELSE IF err THEN CacheResult(False, server, TRUE, "RedisError")
         ELSE CacheResult(True, (key :> [value |-> text.v, ex |-> expire]) @@ server, TRUE, "")

\* RedisCache.delete, lines 69-79.
cache_delete(client, server, key, err) ==
    IF client = "none" THEN CacheResult(False, server, FALSE, "")
    ELSE IF err THEN CacheResult(False, server, TRUE, "RedisError")
    ELSE CacheResult(True, [x \in DOMAIN server \ {key} |-> server[x]], TRUE, "")

\* RedisCache.exists, lines 81-90.
cache_exists(client, server, key, err) ==
    IF client = "none" THEN CacheResult(False, server, FALSE, "")
    ELSE IF err THEN CacheResult(False, server, TRUE, "RedisError")
    ELSE CacheResult((IF key \in DOMAIN server THEN True ELSE False), server, TRUE, "")

\* Values a caller hands to set: a roast response as JSON would carry it,
\* and response.dict() as generate_roast builds it.
CacheValues ==
    {RoastDict(0, "P", IsoText(0)), RoastDict(0, "P", Datetime(0))}

Expires == {OtherExpire}

Called(op, key, r) ==
    [called |-> TRUE, op |-> op, key |-> key, result |-> r.result,
     sent |-> r.sent, caught |-> r.caught]

\* RedisCache.connect, lines 19-31.
Connect(ok) ==
    /\ redis_client' = IF ok THEN "client" ELSE "none"
    /\ UNCHANGED <<redis, tasks, roasts, cres>>
    /\ UNCHANGED <<pvars, cvars, mvars, dvars>>

CacheGet(key, err) ==
    LET r == cache_get(redis_client, redis, key, err) IN
    /\ cres' = Called("get", key, r)
    /\ redis' = r.kept
    /\ UNCHANGED <<redis_client, tasks, roasts>>
    /\ UNCHANGED <<pvars, cvars, mvars, dvars>>

CacheSet(key, value, expire, err) ==
    LET r == cache_set(redis_client, redis, key, value, expire, err) IN
    /\ cres' = Called("set", key, r)
    /\ redis' = r.kept
    /\ UNCHANGED <<redis_client, tasks, roasts>>
    /\ UNCHANGED <<pvars, cvars, mvars, dvars>>

CacheDelete(key, err) ==
    LET r == cache_delete(redis_client, redis, key, err) IN
    /\ cres' = Called("delete", key, r)
    /\ redis' = r.kept
    /\ UNCHANGED <<redis_client, tasks, roasts>>
    /\ UNCHANGED <<pvars, cvars, mvars, dvars>>

CacheExists(key, err) ==
    LET r == cache_exists(redis_client, redis, key, err) IN
    /\ cres' = Called("exists", key, r)
    /\ redis' = r.kept
    /\ UNCHANGED <<redis_client, tasks, roasts>>
    /\ UNCHANGED <<pvars, cvars, mvars, dvars>>

\* The server drops an entry whose time to live has passed.
Expire(key) ==
    /\ key \in DOMAIN redis
    /\ redis' = [x \in DOMAIN redis \ {key} |-> redis[x]]
    /\ UNCHANGED <<redis_client, tasks, roasts, cres>>
    /\ UNCHANGED <<pvars, cvars, mvars, dvars>>

\* background_tasks.add_task(save_analysis_to_db, ...), lines 103-110.
SaveTask(user_uuid, analysis_id) ==
    [fn |-> "save_analysis_to_db", user_uuid |-> user_uuid, mode |-> "roast",
     analysis_id |-> analysis_id, state |-> "scheduled"]

\* What one call of generate_roast did.
Roasted(user_uuid, get, chain_calls, scheduled, set, outcome) ==
    [called |-> TRUE, user_uuid |-> user_uuid, cached |-> get.result,
     get_caught |-> get.caught, chain_calls |-> chain_calls,
     scheduled |-> scheduled, set_result |-> set.result,
     set_caught |-> set.caught, outcome |-> outcome]

\* generate_roast did not reach the call of set.
NoSet == [result |-> Null, caught |-> ""]

\* generate_roast, lines 45-117.  get_err and set_err: the Redis client
\* raises; chain_ok: the roast chain and prepare_context return.  uuid4 is
\* a fresh identifier, here the number of identifiers handed out so far
\* plus one.
GenerateRoast(user_uuid, get_err, chain_ok, set_err) ==
    LET key == roast_key(user_uuid)
        get == cache_get(redis_client, redis, key, get_err)
        cached == get.result
    IN
    /\ Len(tasks) < MaxRoasts
    /\ IF cached # Null
       THEN /\ roasts' = Roasted(user_uuid, get, 0, <<>>, NoSet,
                                 Ok(RoastAnalysisResponse(cached.v)))
            /\ UNCHANGED <<redis, tasks>>
       ELSE IF ~chain_ok
       THEN /\ roasts' = Roasted(user_uuid, get, 1, <<>>, NoSet, HttpError(500))
            /\ UNCHANGED <<redis, tasks>>
       ELSE LET analysis_id == Len(tasks) + 1
                response == RoastDict(analysis_id, "Q", Datetime(analysis_id))
                s == cache_set(redis_client, redis, key, response, RoastTTL, set_err)
                task == SaveTask(user_uuid, analysis_id)
            IN /\ redis' = s.kept
               /\ tasks' = Append(tasks, task)
               /\ roasts' = Roasted(user_uuid, get, 1, <<task>>, s, Ok(response))
    /\ UNCHANGED <<redis_client, cres>>
    /\ UNCHANGED <<pvars, cvars, mvars, dvars>>

\* save_analysis_to_db, lines 25-42, run after the response: the insert
\* and the rpc succeed or the exception is logged.
RunTask(i, ok) ==
    /\ i \in 1..Len(tasks)
    /\ tasks[i].state = "scheduled"
    /\ \A j \in 1..(i - 1) : tasks[j].state # "scheduled"
    /\ tasks' = [tasks EXCEPT ![i].state = IF ok THEN "saved" ELSE "failed"]
    /\ UNCHANGED <<redis_client, redis, roasts, cres>>
    /\ UNCHANGED <<pvars, cvars, mvars, dvars>>

NextRoast ==
    \/ \E ok \in BOOLEAN : Connect(ok)
    \/ \E key \in CacheKeys, err \in BOOLEAN : CacheGet(key, err)
    \/ \E key \in CacheKeys, value \in CacheValues, expire \in Expires, err \in BOOLEAN :
          CacheSet(key, value, expire, err)
    \/ \E key \in CacheKeys, err \in BOOLEAN : CacheDelete(key, err)
    \/ \E key \in CacheKeys, err \in BOOLEAN : CacheExists(key, err)
    \/ \E key \in CacheKeys : Expire(key)
    \/ \E user_uuid \in CacheUsers, get_err \in BOOLEAN, chain_ok \in BOOLEAN, set_err \in BOOLEAN :
          GenerateRoast(user_uuid, get_err, chain_ok, set_err)
    \/ \E i \in 1..MaxRoasts, ok \in BOOLEAN : RunTask(i, ok)

SpecRoast == Init /\ [][NextRoast]_vars

-----------------------------------------------------------------------------
(* Claims.                                                                 *)

\* The request has returned.
Done == pc = "done"

\* The windowed query was run and did not raise.
Queried == pc \in {"loop", "except", "done"} /\ "query" \notin failures

\* The report returned was built by lines 139-154 from the aggregation.
Built == Done /\ failures \cap {"query", "aggregate", "build"} = {} /\ data # <<>>

\* C1: when the windowed query yields no browsing records, the request returns
\* the canonical empty report: total_sites 0, total_visits 0, total_time "0m",
\* productivity_score 0, no top site, no category, and the single insight
\* 'No data yet - start browsing!'.
C1_EmptyInput ==
    (Done /\ Queried /\ data = <<>>) =>
        /\ result.overview = [total_sites |-> 0, total_visits |-> 0,
                              total_time |-> "0m", productivity_score |-> 0]
        /\ result.top_sites = <<>>
        /\ DOMAIN result.categories = {}
        /\ Len(result.insights) = 1
        /\ Contains(result.insights[1], "No data yet - start browsing!")

C1_Witness ==
    /\ Done /\ Queried /\ data = <<>>
    /\ result.overview.total_time = "0m"
    /\ Len(result.insights) = 1

-----------------------------------------------------------------------------
(* The rule table of the specification (section 4.1), and the occurrence   *)
(* of a substring whatever the case of the letters.                        *)

SameLetter(c, d) ==
    \/ c = d
    \/ \E i \in 1..Len(UpperChars) :
          {c, d} = {CharAt(UpperChars, i), CharAt(LowerChars, i)}

OccursIgnoringCase(sub, s) ==
    \E i \in 1..(Len(s) - Len(sub) + 1) :
        \A j \in 1..Len(sub) : SameLetter(CharAt(s, i + j - 1), CharAt(sub, j))

RuleTable ==
    << [subs |-> {"github", "stackoverflow", "vscode", "gitlab", "replit", "codesandbox"},
        cat |-> "productive"],
       [subs |-> {"notion", "docs.google", "sheets.google", "trello", "asana", "figma"},
        cat |-> "productive"],
       [subs |-> {"youtube", "netflix", "instagram", "twitter", "tiktok", "facebook", "reddit"},
        cat |-> "entertainment"],
       [subs |-> {"amazon", "shop", "ebay", "walmart"},
        cat |-> "shopping"],
       [subs |-> {"gmail", "mail", "linkedin", "outlook", "calendar"},
        cat |-> "other"] >>

RuleMatches(i, s) == \E x \in RuleTable[i].subs : OccursIgnoringCase(x, s)

FirstRuleCategory(s) ==
    IF \E i \in 1..Len(RuleTable) : RuleMatches(i, s)
    THEN LET first == CHOOSE i \in 1..Len(RuleTable) :
                        /\ RuleMatches(i, s)
                        /\ \A j \in 1..(i - 1) : ~RuleMatches(j, s)
         IN  RuleTable[first].cat
    ELSE "other"

\* C2: _quick_categorize returns the category of the first rule of the table,
\* in table order, one of whose substrings occurs in the platform string
\* whatever the case of its letters, and "other" when no rule matches; the
\* result is one of the four categories.
C2_FirstMatchWins ==
    (arg.fn = "quick_categorize" /\ ret.called) =>
        /\ ret.value = FirstRuleCategory(arg.platform)
        /\ ret.value \in {"productive", "entertainment", "shopping", "other"}

\* A string that holds "github" (in capitals) and "amazon" is productive.
C2_Witness ==
    /\ arg.fn = "quick_categorize" /\ ret.called
    /\ arg.platform = "AMAZONGitHub"
    /\ ret.value = "productive"

-----------------------------------------------------------------------------
(* The three tiers of the productivity insight, told apart by their text.  *)

Tier(msg) ==
    IF Contains(msg, "% productive - crushing it!") THEN "positive"
    ELSE IF Contains(msg, "% productive - balanced") THEN "neutral"
    ELSE IF Contains(msg, "% productive - mostly time-wasting!") THEN "negative"
    ELSE "none"

OneTierFirst(ins) ==
    /\ Len(ins) >= 1
    /\ Tier(ins[1]) # "none"
    /\ \A i \in 2..Len(ins) : Tier(ins[i]) = "none"

\* C7 as stated: score > 60 positive, every score from 30 to 60 neutral,
\* score < 30 negative; one tier message, the first entry of insights.
C7_Original ==
    (arg.fn = "quick_insights" /\ ret.called) =>
        /\ OneTierFirst(ret.value)
        /\ arg.score > 60 => Tier(ret.value[1]) = "positive"
        /\ (arg.score >= 30 /\ arg.score <= 60) => Tier(ret.value[1]) = "neutral"
        /\ arg.score < 30 => Tier(ret.value[1]) = "negative"

\* C7 as amended: score > 60 positive, every score from 31 to 60 neutral,
\* score <= 30 negative (30 itself is in the lowest tier); one tier message,
\* the first entry of insights, flagged in the lowest tier.
C7_Tiers ==
    (arg.fn = "quick_insights" /\ ret.called) =>
        /\ OneTierFirst(ret.value)
        /\ arg.score > 60 => Tier(ret.value[1]) = "positive"
        /\ (arg.score > 30 /\ arg.score <= 60) => Tier(ret.value[1]) = "neutral"
        /\ arg.score <= 30 =>
              /\ Tier(ret.value[1]) = "negative"
              /\ Contains(ret.value[1], "[flag]")

C7_Witness ==
    /\ arg.fn = "quick_insights" /\ ret.called
    /\ arg.score = 30
    /\ Tier(ret.value[1]) = "negative"
    /\ Len(ret.value) = 2

-----------------------------------------------------------------------------
(* What the input says, computed from the rows read and not from the       *)
(* locals of the loop.  A column counts as missing when its key is absent  *)
(* or its value is null.                                                   *)

Missing(field) == field.k # "val"

PlatformOf(item) == IF Missing(item.platform) THEN "unknown" ELSE item.platform.v
VisitsOf(item) == IF Missing(item.visit_count) THEN 1 ELSE item.visit_count.v
TimeMsOf(item) ==
    IF Missing(item.time_spent_seconds) THEN 0 ELSE item.time_spent_seconds.v * 1000

PlatformsOf(d) == {PlatformOf(d[i]) : i \in 1..Len(d)}

RECURSIVE TimeOfPlatform(_, _)
TimeOfPlatform(d, p) ==
    IF d = <<>> THEN 0
    ELSE (IF PlatformOf(Head(d)) = p THEN TimeMsOf(Head(d)) ELSE 0)
         + TimeOfPlatform(Tail(d), p)

RECURSIVE TotalVisitsOf(_)
TotalVisitsOf(d) == IF d = <<>> THEN 0 ELSE VisitsOf(Head(d)) + TotalVisitsOf(Tail(d))

\* Position in the input of the first record of platform p.
FirstSeen(d, p) == CHOOSE i \in 1..Len(d) :
                      /\ PlatformOf(d[i]) = p
                      /\ \A j \in 1..(i - 1) : PlatformOf(d[j]) # p

SumCats(c) == c["productive"] + c["entertainment"] + c["shopping"] + c["other"]

SiteVisits(s) == SumSeq([i \in 1..Len(s) |-> s[i].v])

\* C3: after every iteration of the aggregation loop, and after the loop, the
\* four category accumulators sum to total_time and the visits of the
\* per-platform buckets sum to total_visits.
C3_Conservation ==
    (pc = "loop" \/ Built) =>
        /\ SumCats(cats) = total_time
        /\ SiteVisits(sites) = total_visits

\* Three iterations done, two of them on the same platform.
C3_Witness ==
    /\ pc = "loop" /\ idx = 4
    /\ Len(sites) = 2
    /\ cats["productive"] > 0 /\ cats["entertainment"] > 0
    /\ SumCats(cats) = total_time

\* C4: productivity_score and every category percent of the report lie in
\* 0..100; no percentage divides by zero; and when total_time is 0, also for a
\* non-empty input whose records all have zero time, productivity_score is 0
\* and categories is empty.
C4_PercentBounds ==
    /\ "build" \notin failures
    /\ Done =>
        /\ result.overview.productivity_score \in 0..100
        /\ \A c \in DOMAIN result.categories : result.categories[c].percent \in 0..100
        /\ total_time = 0 =>
              /\ result.overview.productivity_score = 0
              /\ DOMAIN result.categories = {}

\* A report built from a non-empty input whose time is zero.
C4_Witness ==
    /\ Built
    /\ Len(data) = 2
    /\ total_time = 0
    /\ result.overview.total_sites = 1
    /\ result.overview.productivity_score = 0

TopNames(r) == {r.top_sites[i].site : i \in 1..Len(r.top_sites)}

\* C5: top_sites is ordered by non-increasing accumulated time, holds
\* min(3, number of distinct platforms) platforms, each once, and every
\* platform in it has accumulated at least as much time as every platform
\* left out.
C5_TopN ==
    Done =>
        LET top == result.top_sites IN
        /\ Len(top) = Min(3, result.overview.total_sites)
        /\ Built => result.overview.total_sites = Cardinality(PlatformsOf(data))
        /\ TopNames(result) \subseteq PlatformsOf(data)
        /\ Cardinality(TopNames(result)) = Len(top)
        /\ \A i, j \in 1..Len(top) :
              i < j => TimeOfPlatform(data, top[i].site) >= TimeOfPlatform(data, top[j].site)
        /\ Built =>
              \A p \in TopNames(result), q \in PlatformsOf(data) \ TopNames(result) :
                  TimeOfPlatform(data, p) >= TimeOfPlatform(data, q)

\* Four platforms, the one left out with strictly less time than the third.
C5_Witness ==
    /\ Built
    /\ result.overview.total_sites = 4
    /\ Len(result.top_sites) = 3
    /\ \E q \in PlatformsOf(data) \ TopNames(result) :
          TimeOfPlatform(data, q) < TimeOfPlatform(data, result.top_sites[3].site)

\* round(100 * x / total), to the nearest integer, halves to the even one.
RoundPct(x, total) ==
    LET q == (100 * x) \div total
        r == (100 * x) % total
    IN  IF 2 * r > total THEN q + 1
        ELSE IF 2 * r < total THEN q
        ELSE IF q % 2 = 0 THEN q ELSE q + 1

\* int(x / total * 100): the percentage cut to an integer, and one less than
\* the exact value at exactly 29, 57 and 58 percent, where the floating-point
\* product falls just short of the integer.
TruncPct(x, total) ==
    LET q == (100 * x) \div total
    IN  IF q * total = 100 * x /\ q \in {29, 57, 58} THEN q - 1 ELSE q

\* C6 as stated: whenever total_time > 0, productivity_score and the percent of
\* every listed category are the percentage rounded to the nearest integer.
C6_Original ==
    (Built /\ total_time > 0) =>
        /\ result.overview.productivity_score = RoundPct(cats["productive"], total_time)
        /\ \A c \in DOMAIN result.categories :
              result.categories[c].percent = RoundPct(cats[c], total_time)

\* C6 as amended: whenever total_time > 0, productivity_score and the percent
\* of every listed category are the percentage truncated to an integer.
C6_Truncation ==
    (Built /\ total_time > 0) =>
        /\ result.overview.productivity_score = TruncPct(cats["productive"], total_time)
        /\ \A c \in DOMAIN result.categories :
              result.categories[c].percent = TruncPct(cats[c], total_time)

\* Productive 2 of total 3 gives 66.
C6_Witness ==
    /\ Built
    /\ total_time > 0
    /\ 3 * cats["productive"] = 2 * total_time
    /\ result.overview.productivity_score = 66
    /\ result.categories["productive"].percent = 66

\* C8: a record with a missing platform, visit_count or time_spent_seconds is
\* aggregated with the defaults "unknown", 1 and 0: the aggregation does not
\* raise, and the report counts every record of the input.
C8_DefaultsNeverDrop ==
    (Done /\ Queried /\ data # <<>>) =>
        /\ "aggregate" \notin failures
        /\ result.overview.total_visits = TotalVisitsOf(data)
        /\ result.overview.total_sites = Cardinality(PlatformsOf(data))

Canonical(r) ==
    /\ r.overview = [total_sites |-> 0, total_visits |-> 0,
                     total_time |-> "0m", productivity_score |-> 0]
    /\ r.top_sites = <<>>
    /\ DOMAIN r.categories = {}
    /\ Len(r.insights) = 1
    /\ Contains(r.insights[1], "No data yet - start browsing!")

WellFormed(r) ==
    /\ DOMAIN r = {"overview", "top_sites", "categories", "insights"}
    /\ DOMAIN r.overview = {"total_sites", "total_visits", "total_time", "productivity_score"}
    /\ Len(r.insights) >= 1

\* C9 as stated: no exception leaves _fetch_and_calculate_metrics or
\* get_metrics, and a failure in any stage (default days, query, aggregation,
\* report) ends in the canonical empty report.
C9_Original ==
    /\ pc # "raised"
    /\ "fetch_raised" \notin failures
    /\ Done => (WellFormed(result) /\ (failures # {} => Canonical(result)))

\* C9 as amended: no exception leaves _fetch_and_calculate_metrics or
\* get_metrics; a failure while querying, aggregating or building the report
\* ends in the canonical empty report; a failure while resolving the default
\* days makes days 3 and the request goes on; every report returned is well
\* formed.
C9_Degrade ==
    /\ pc # "raised"
    /\ "fetch_raised" \notin failures
    /\ "days" \in failures => days = 3
    /\ Done =>
        /\ WellFormed(result)
        /\ failures \cap {"query", "aggregate", "build"} # {} => Canonical(result)

\* The lookup of the default days failed, a row raised in the loop, and the
\* request returned the empty report.
C9_Witness ==
    /\ Done
    /\ failures = {"days", "aggregate"}
    /\ Len(sites) = 1
    /\ Canonical(result)

\* C10: platforms with equal accumulated time stand in top_sites in the order
\* in which they first occur in the input, and of two such platforms one of
\* which is left out, the one kept occurs first.
C10_TiesByEncounter ==
    Built =>
        LET top == result.top_sites IN
        /\ \A i, j \in 1..Len(top) :
              (i < j /\ TimeOfPlatform(data, top[i].site) = TimeOfPlatform(data, top[j].site))
                  => FirstSeen(data, top[i].site) < FirstSeen(data, top[j].site)
        /\ \A p \in TopNames(result), q \in PlatformsOf(data) \ TopNames(result) :
              TimeOfPlatform(data, p) = TimeOfPlatform(data, q)
                  => FirstSeen(data, p) < FirstSeen(data, q)

\* Four platforms, the second and third of top_sites and the one left out all
\* with the same time.
C10_Witness ==
    /\ Built
    /\ Len(data) = 4
    /\ result.overview.total_sites = 4
    /\ LET top == result.top_sites IN
        /\ TimeOfPlatform(data, top[2].site) = TimeOfPlatform(data, top[3].site)
        /\ \E q \in PlatformsOf(data) \ TopNames(result) :
              TimeOfPlatform(data, q) = TimeOfPlatform(data, top[3].site)

-----------------------------------------------------------------------------
(* The records the loop has gone through: all of them once the report is   *)
(* built, those before the next item while the loop runs.                  *)

Seen == IF pc = "loop" THEN SubSeq(data, 1, idx - 1) ELSE data

RECURSIVE VisitsOfPlatform(_, _)
VisitsOfPlatform(d, p) ==
    IF d = <<>> THEN 0
    ELSE (IF PlatformOf(Head(d)) = p THEN VisitsOf(Head(d)) ELSE 0)
         + VisitsOfPlatform(Tail(d), p)

\* Time held by the buckets whose category is c.
BucketTimeIn(s, c) == SumSeq([i \in 1..Len(s) |-> IF s[i].c = c THEN s[i].t ELSE 0])

\* C11: there is one site bucket per distinct platform of the input, and
\* total_sites counts them; a bucket's visits and time are the sums over all
\* records of its platform; a bucket has one category, that of its platform,
\* and each category accumulator holds the time of the buckets of that
\* category, so every record of a platform feeds the same accumulator.
C11_OneBucketPerPlatform ==
    (pc = "loop" \/ Built) =>
        /\ Len(sites) = Cardinality(PlatformsOf(Seen))
        /\ {sites[i].site : i \in 1..Len(sites)} = PlatformsOf(Seen)
        /\ \A i \in 1..Len(sites) :
              /\ sites[i].v = VisitsOfPlatform(Seen, sites[i].site)
              /\ sites[i].t = TimeOfPlatform(Seen, sites[i].site)
              /\ sites[i].c = quick_categorize(sites[i].site)
        /\ \A c \in Categories : cats[c] = BucketTimeIn(sites, c)
        /\ Built =>
              /\ result.overview.total_sites = Cardinality(PlatformsOf(data))
              /\ \A k \in 1..Len(result.top_sites) :
                    LET b == result.top_sites[k] IN
                    /\ b.visits = VisitsOfPlatform(data, b.site)
                    /\ b.category = quick_categorize(b.site)

\* Three records, two of them of github.com: one bucket holds both.
C11_Witness ==
    /\ Built
    /\ Len(data) = 3
    /\ data[1].platform = Val("github.com") /\ data[3].platform = Val("github.com")
    /\ result.overview.total_sites = 2
    /\ \E i \in 1..Len(sites) :
          sites[i].site = "github.com" /\ sites[i].v = 10 /\ sites[i].t = 2400000

RECURSIVE CategoryTimeOf(_, _)
CategoryTimeOf(d, c) ==
    IF d = <<>> THEN 0
    ELSE (IF quick_categorize(PlatformOf(Head(d))) = c THEN TimeMsOf(Head(d)) ELSE 0)
         + CategoryTimeOf(Tail(d), c)

\* C12: the categories of the report are exactly those of productive,
\* entertainment, shopping and other in which the records of the input have
\* spent time; a category without time is not listed, even when a platform
\* of the input belongs to it, and no other key is ever listed.
C12_ListedCategories ==
    Done =>
        /\ DOMAIN result.categories \subseteq {"productive", "entertainment", "shopping", "other"}
        /\ Built =>
              DOMAIN result.categories =
                  {c \in {"productive", "entertainment", "shopping", "other"} :
                      CategoryTimeOf(data, c) > 0}

\* A platform of category other that spent no time, beside a productive one
\* that did: other is not listed.
C12_Witness ==
    /\ Built
    /\ \E i \in 1..Len(sites) : sites[i].c = "other" /\ sites[i].t = 0
    /\ DOMAIN result.categories = {"productive"}

-----------------------------------------------------------------------------
(* Decimal numerals, and the reading of a rendered duration.               *)

Digits == "0123456789"

RECURSIVE Decimal(_)
Decimal(n) ==
    IF n < 10 THEN CharAt(Digits, n + 1)
    ELSE Decimal(n \div 10) \o CharAt(Digits, (n % 10) + 1)

\* Where "h " stands in s, 0 when it does not occur.
HoursMark(s) ==
    IF Contains(s, "h ")
    THEN CHOOSE i \in 1..(Len(s) - 1) : SubSeq(s, i, i + 1) = "h "
    ELSE 0

\* What stands between "h " and the closing "m".
MinutesShown(s) == SubSeq(s, HoursMark(s) + 2, Len(s) - 1)

\* C13: for every non-negative ms, _fmt renders the whole hours of ms and the
\* whole minutes left over as "{h}h {m}m" when there is at least one hour,
\* and the whole minutes of ms as "{m}m" otherwise, in decimal; _fmt(0) is
\* "0m", _fmt(90000) is "1m", _fmt(3661000) is "1h 1m"; beside hours, the
\* minutes shown are between 0 and 59.
C13_Fmt ==
    (arg.fn = "fmt" /\ ret.called) =>
        LET ms == arg.ms
            h == ms \div 3600000
            left == (ms - h * 3600000) \div 60000
        IN  /\ h > 0 => ret.value = Decimal(h) \o "h " \o Decimal(left) \o "m"
            /\ h = 0 => ret.value = Decimal(ms \div 60000) \o "m"
            /\ ms = 0 => ret.value = "0m"
            /\ ms = 90000 => ret.value = "1m"
            /\ ms = 3661000 => ret.value = "1h 1m"
            /\ HoursMark(ret.value) # 0 =>
                  MinutesShown(ret.value) \in {Decimal(k) : k \in 0..59}

\* 3661000 ms, rendered "1h 1m".
C13_Witness ==
    /\ arg.fn = "fmt" /\ ret.called
    /\ arg.ms = 3661000
    /\ ret.value = "1h 1m"

\* C14: for every non-empty input, insights has between 2 and 3 entries, the
\* productivity-tier message first and a message about the top site, the
\* platform with the largest accumulated time, after it.
C14_TierThenTopSite ==
    Built =>
        LET ins == result.insights IN
        /\ Len(ins) \in 2..3
        /\ Tier(ins[1]) # "none"
        /\ Contains(ins[2], "Top site: " \o result.top_sites[1].site)

-----------------------------------------------------------------------------
(* The groups of the top-site insight, in the order of the specification   *)
(* (section 4.1, step 6), each with the words that close its message.      *)

InsightGroups ==
    << [subs |-> {"chatgpt", "claude", "openai", "bard"}, words |-> "AI dependency detected"],
       [subs |-> {"instagram", "twitter", "tiktok", "facebook"}, words |-> "social media addict"],
       [subs |-> {"youtube", "netflix", "twitch"}, words |-> "video binge mode"],
       [subs |-> {"linkedin"}, words |-> "fake networking alert"],
       [subs |-> {"gmail", "mail", "outlook"}, words |-> "inbox checking addiction"] >>

GroupMatches(i, s) == \E x \in InsightGroups[i].subs : OccursIgnoringCase(x, s)

GroupsMatching(s) == {i \in 1..Len(InsightGroups) : GroupMatches(i, s)}

FirstGroup(s) == CHOOSE i \in GroupsMatching(s) : \A j \in GroupsMatching(s) : i <= j

TopSiteEntries(ins) == {i \in 1..Len(ins) : Contains(ins[i], "Top site: ")}

EndsWith(s, e) == Len(s) >= Len(e) /\ SubSeq(s, Len(s) - Len(e) + 1, Len(s)) = e

-----------------------------------------------------------------------------
(* Records without a platform field: the key is not in the row.            *)

Unnamed(d) == {i \in 1..Len(d) : d[i].platform.k = "absent"}

RECURSIVE TotalTimeOf(_)
TotalTimeOf(d) == IF d = <<>> THEN 0 ELSE TimeMsOf(Head(d)) + TotalTimeOf(Tail(d))

NamesUnknown(ins) == {i \in 1..Len(ins) : Contains(ins[i], "unknown")}

-----------------------------------------------------------------------------
(* The end-to-end scenario of the specification (section 8, property 7).   *)

ScenarioInput ==
    << [platform |-> Val("github.com"), visit_count |-> Val(5),
        time_spent_seconds |-> Val(1200)],
       [platform |-> Val("youtube.com"), visit_count |-> Val(10),
        time_spent_seconds |-> Val(3600)] >>

\* C17: for the records github.com (5 visits, 1200 s) and youtube.com
\* (10 visits, 3600 s) the total time is 4,800,000 ms, productivity_score is
\* 25, categories is productive 20m / 25% and entertainment 1h 0m / 75% with
\* no other entry, and the first of top_sites is youtube.com.
C17_EndToEnd ==
    (Done /\ Queried /\ data = ScenarioInput) =>
        /\ total_time = 4800000
        /\ result.overview.productivity_score = 25
        /\ DOMAIN result.categories = {"productive", "entertainment"}
        /\ result.categories["productive"] = [time |-> "20m", percent |-> 25]
        /\ result.categories["entertainment"] = [time |-> "1h 0m", percent |-> 75]
        /\ result.top_sites[1].site = "youtube.com"

C17_Witness ==
    /\ Done /\ Queried
    /\ data = ScenarioInput
    /\ result.overview = [total_sites |-> 2, total_visits |-> 15,
                          total_time |-> "1h 20m", productivity_score |-> 25]
    /\ Len(result.top_sites) = 2

-----------------------------------------------------------------------------
(* Requests served through the cache, told apart by what the caller sees:  *)
(* user, days, time zone and the five-minute bucket of the request.        *)

Bucket(h) == h.at \div 300

SameKey(a, b) ==
    /\ a.user = b.user
    /\ a.days = b.days
    /\ a.tz = b.tz
    /\ Bucket(a) = Bucket(b)

\* The latest request before the j-th with the same user, days, time zone
\* and bucket; 0 when there is none.
LastSame(j) ==
    LET prev == {i \in 1..(j - 1) : SameKey(hist[i], hist[j])}
    IN  IF prev = {} THEN 0 ELSE CHOOSE i \in prev : \A k \in prev : k <= i

\* How many other keys were used after the i-th request and before the j-th.
OtherKeysBetween(i, j) ==
    Cardinality({<<hist[k].user, hist[k].days, hist[k].tz, Bucket(hist[k])>> :
                    k \in {n \in (i + 1)..(j - 1) : ~SameKey(hist[n], hist[j])}})

\* C18: a request whose user, days, time zone and five-minute bucket are
\* those of an earlier request, fewer than maxsize other keys having been
\* used since, is answered with the report of that request and without the
\* windowed query; and a request answered without the windowed query always
\* gets the report of an earlier request of the same user, days, time zone
\* and bucket, never one computed in another bucket.
C18_Memoized ==
    \A j \in 1..Len(hist) :
        LET i == LastSame(j) IN
        /\ (i # 0 /\ OtherKeysBetween(i, j) < maxsize) =>
              /\ ~hist[j].queried
              /\ hist[j].report = hist[i].report
        /\ ~hist[j].queried =>
              /\ i # 0
              /\ hist[j].report = hist[i].report

\* Two requests in one bucket, at different times, the store having gained a
\* row in between: the second is answered from the cache with the report of
\* the first, which the store no longer gives.
C18_Witness ==
    /\ Len(hist) = 2
    /\ SameKey(hist[1], hist[2])
    /\ hist[1].at < hist[2].at
    /\ hist[1].user = "u1"
    /\ hist[1].query_ok
    /\ ~hist[2].queried
    /\ hist[2].report = hist[1].report
    /\ hist[2].report.overview.total_sites = 0
    /\ store # <<>>

-----------------------------------------------------------------------------
(* What the store holds for a user, read off the rows.                     *)

Visits(user) == {store[i].last_visit : i \in {k \in 1..Len(store) : store[k].user = user}}

\* The last_visit of the user's oldest record.
OldestVisit(user) == CHOOSE o \in Visits(user) : \A v \in Visits(user) : o.at <= v.at

\* The lookup of the default window fails: the store does not answer, or the
\* oldest last_visit comes with a UTC offset and cannot be subtracted from
\* the server's naive local time.
LookupFails(h) ==
    \/ ~h.lookup_ok
    \/ Visits(h.user) # {} /\ OldestVisit(h.user).aware

-----------------------------------------------------------------------------
(* The window in UTC, read off the clock.                                  *)

\* Midnight UTC, d days before the day of t.
UtcMidnightBefore(t, d) == (t - d * 86400) - ((t - d * 86400) % 86400)

\* The user's records since the UTC cutoff, in store order.
UtcWindowRecords(h) ==
    LET hits == SelectSeq(store, LAMBDA r : /\ r.user = h.user
                                            /\ r.last_visit.at >= UtcMidnightBefore(h.at, h.days))
    IN  [i \in 1..Len(hits) |-> hits[i].item]

UnknownZone(tz) == tz \notin {"UTC", "Asia/Kolkata"}

\* C20: a request whose time zone is unknown or not well formed gets a
\* well-formed report, the one the same request gets with time zone "UTC";
\* when the windowed query answers and the user has records since the UTC
\* cutoff, it is a report of those records and not the empty one.
C20_UnknownZoneIsUtc ==
    \A j \in 1..Len(hist) :
        LET h == hist[j] IN
        (UnknownZone(h.tz) /\ h.queried) =>
            /\ h.report # NoResult
            /\ WellFormed(h.report)
            /\ Val(h.report) =
                  fetch_and_calculate_metrics(store, h.user, h.days, "UTC", h.at, h.query_ok)
            /\ (h.query_ok /\ UtcWindowRecords(h) # <<>>) =>
                  /\ ~Canonical(h.report)
                  /\ h.report.overview.total_visits = TotalVisitsOf(UtcWindowRecords(h))
                  /\ h.report.overview.total_sites =
                        Cardinality(PlatformsOf(UtcWindowRecords(h)))

\* An unknown zone, and a week-old record inside the window of Asia/Kolkata
\* but before the UTC cutoff: the report counts the other record only.
C20_Witness ==
    /\ Len(hist) = 1
    /\ hist[1].tz = "Mars/Phobos"
    /\ hist[1].user = "u1"
    /\ hist[1].days = 7
    /\ hist[1].query_ok
    /\ Len(store) = 2
    /\ store[1].last_visit.at < UtcMidnightBefore(hist[1].at, 7)
    /\ Len(UtcWindowRecords(hist[1])) = 1
    /\ hist[1].report.overview.total_sites = 1

-----------------------------------------------------------------------------
(* The daily analysis, read off the requests in flight and the tables.     *)

InFlight == {p \in 1..MaxInFlight : reqs[p] # Idle}

AtReturn(p) == p \in InFlight /\ reqs[p].pc = "return"

Succeeds(p) == response_of(reqs[p]).http = 200

RowOf(p) == daily_analysis[ReqKey(p)]

Terminal(row) == row.row /\ row.processing_status \in {"completed", "failed"}

\* C21: a save_today_browsing request that answers success leaves the row
\* of daily_analysis for its user and date completed or failed, never
\* pending, whatever its body, an empty raw_data included.  Nothing is
\* written between the end of process_llm_analysis and the return, so the
\* row the request leaves is the row at its return.
C21_TerminalOnSuccess ==
    \A p \in 1..MaxInFlight :
        (AtReturn(p) /\ Succeeds(p)) => Terminal(RowOf(p))

\* C22: process_llm_analysis lets no exception out; after a failure of the
\* read, of the model, of the parse or of the save it has tried to mark the
\* row as failed; and a row is completed only by the update that stores the
\* score and the analysis parsed from an answer of the model, the row
\* carrying exactly these.
C22_AnalysisContained ==
    /\ \A p \in InFlight :
          /\ reqs[p].propagated = ""
          /\ (reqs[p].pc = "return" /\ reqs[p].exc # "") => reqs[p].marked
    /\ \A k \in DailyKeys :
          (daily_analysis[k].row /\ daily_analysis[k].processing_status = "completed") =>
              /\ analysed[k].row
              /\ daily_analysis[k].analysis_data = analysed[k].analysis_data
              /\ daily_analysis[k].productivity_score =
                    DictGet(analysed[k].analysis_data, "productivity_score")

\* The model answered with something that is no JSON: the request is at its
\* return, the attempt to mark the row was made and the row is failed.
C22_Witness ==
    \E p \in InFlight :
        /\ reqs[p].pc = "return"
        /\ reqs[p].exc = "JSONDecodeError"
        /\ reqs[p].marked
        /\ reqs[p].propagated = ""
        /\ RowOf(p).row
        /\ RowOf(p).processing_status = "failed"

\* C23: process_llm_analysis is called only after both upserts have
\* succeeded; a request one of whose upserts failed is answered HTTP 500
\* without the analysis having started; a request both of whose upserts
\* succeeded is answered success with items_count = len(raw_data), whatever
\* became of the analysis.
C23_UpsertsThenAnalysis ==
    \A p \in InFlight :
        LET r == reqs[p] IN
        /\ r.started => (r.browsing = "ok" /\ r.placeholder = "ok")
        /\ r.pc \notin {"upserts", "return"} => r.started
        /\ (r.pc # "upserts" /\ "failed" \in {r.browsing, r.placeholder}) =>
              /\ ~r.started
              /\ r.pc = "return"
              /\ response_of(r) = HttpError(500)
        /\ (r.pc = "return" /\ r.browsing = "ok" /\ r.placeholder = "ok") =>
              /\ r.started
              /\ response_of(r) = Ok([success |-> TRUE, date |-> r.body.date,
                                      items_count |-> Len(r.body.raw_data)])

\* Both upserts succeeded, the call of the model failed, and the request
\* of two sites is about to answer success with items_count 2.
C23_Witness ==
    \E p \in InFlight :
        /\ reqs[p].pc = "return"
        /\ reqs[p].browsing = "ok" /\ reqs[p].placeholder = "ok"
        /\ reqs[p].exc = "OpenAIError"
        /\ Len(reqs[p].body.raw_data) = 2
        /\ response_of(reqs[p]).payload.items_count = 2

\* C24: get_today_analysis answers HTTP 404 without a row, {status: pending}
\* and {status: processing} for these statuses, HTTP 500 for failed, and
\* for any other status a payload with status completed, the row's date and
\* productivity_score and the fields of its analysis_data; the row is left
\* as it was.
C24_TodayMapping ==
    answer.called =>
        LET row == answer.row
            res == answer.response
        IN  /\ daily_analysis[RowKey(answer.user_uuid, answer.date)] = row
            /\ IF ~row.row THEN res = HttpError(404)
               ELSE IF row.processing_status \in {"pending", "processing"}
               THEN /\ res.http = 200
                    /\ res.payload["status"] = Val(row.processing_status)
               ELSE IF row.processing_status = "failed" THEN res = HttpError(500)
               ELSE /\ res.http = 200
                    /\ res.payload["status"] = Val("completed")
                    /\ res.payload["date"] = Val(answer.date)
                    /\ res.payload["productivity_score"] = row.productivity_score
                    /\ \A key \in DOMAIN row.analysis_data :
                          res.payload[key] = row.analysis_data[key]

\* C27: when no save_today_browsing request is in flight any more and the
\* row of daily_analysis is completed, its analysis_data was computed from
\* the raw_data that daily_browsing holds for the same user and date.
C27_AnalysisOfStoredData ==
    \A k \in DailyKeys :
        (InFlight = {} /\ daily_analysis[k].row
                       /\ daily_analysis[k].processing_status = "completed") =>
            /\ analysed[k].row
            /\ daily_browsing[k].row
            /\ analysed[k].raw_data = daily_browsing[k].raw_data

ServiceStatuses == {"pending", "completed", "failed"}

StatusValues ==
    \A k \in DailyKeys :
        daily_analysis[k].row =>
            /\ daily_analysis[k].processing_status \in ServiceStatuses
            /\ LET res == today_analysis(daily_analysis[k], k[2]) IN
               res.http = 200 => res.payload["status"] # Val("processing")

\* The step is the placeholder upsert of request p, and it succeeds.
PlaceholderStep(p) ==
    /\ reqs[p] # Idle
    /\ reqs[p].pc = "upserts"
    /\ reqs[p].placeholder = "no"
    /\ reqs'[p].placeholder = "ok"

StatusWriters ==
    \A k \in DailyKeys :
        /\ (\E p \in 1..MaxInFlight : PlaceholderStep(p) /\ ReqKey(p) = k) =>
              /\ daily_analysis'[k].row
              /\ daily_analysis'[k].processing_status = "pending"
              /\ daily_analysis'[k].analysis_data = EmptyDict
        /\ daily_analysis'[k] # daily_analysis[k] =>
              /\ daily_analysis'[k].row
              /\ daily_analysis'[k].processing_status = "pending" =>
                    \E p \in 1..MaxInFlight : PlaceholderStep(p) /\ ReqKey(p) = k
              /\ daily_analysis'[k].processing_status = "completed" =>
                    \E p \in InFlight : reqs[p].pc = "save" /\ ReqKey(p) = k
              /\ daily_analysis'[k].processing_status = "failed" =>
                    \E p \in InFlight : reqs[p].pc = "mark" /\ ReqKey(p) = k

\* C28: the processing_status of a row of daily_analysis is always pending,
\* completed or failed, so that get_today_analysis never answers
\* processing; pending is written by the placeholder upsert only, which
\* empties analysis_data whatever the row was, completed by the save of
\* process_llm_analysis only and failed by its handler only.
C28_StatusValues == [](StatusValues) /\ [][StatusWriters]_vars

\* A row that was completed and that a later request's placeholder has
\* reset: pending, analysis_data empty, the earlier score still in place.
C28_Witness ==
    \E k \in DailyKeys :
        /\ daily_analysis[k].row
        /\ daily_analysis[k].processing_status = "pending"
        /\ daily_analysis[k].analysis_data = EmptyDict
        /\ daily_analysis[k].productivity_score = Val(67)

\* A step of generate_roast.
RoastStep == roasts' # roasts \/ Len(tasks') > Len(tasks)

\* generate_roast found an entry: its response is the entry, from no chain
\* call, and no save is scheduled.
RoastHit ==
    LET r == roasts' IN
    r.cached # Null =>
        /\ r.outcome = Ok(RoastAnalysisResponse(r.cached.v))
        /\ r.outcome.payload.analysis_id = r.cached.v.analysis_id
        /\ r.chain_calls = 0
        /\ r.scheduled = <<>>
        /\ tasks' = tasks
        /\ redis' = redis

\* generate_roast found no entry and answers 200: exactly one save task,
\* carrying the identifier of the response.
RoastMissTask ==
    LET r == roasts' IN
    (r.cached = Null /\ r.outcome.http = 200) =>
        /\ r.chain_calls = 1
        /\ Len(r.scheduled) = 1
        /\ tasks' = Append(tasks, r.scheduled[1])
        /\ r.scheduled[1].fn = "save_analysis_to_db"
        /\ r.scheduled[1].user_uuid = r.user_uuid
        /\ r.scheduled[1].analysis_id = r.outcome.payload.analysis_id

\* ... and, the cache being connected and its client raising nothing, the
\* response is the entry of roast:{user_uuid}, with the roast TTL.
RoastMissStored ==
    LET r == roasts'
        key == roast_key(r.user_uuid)
    IN
    (/\ r.cached = Null /\ r.outcome.http = 200
     /\ redis_client = "client" /\ r.get_caught = "" /\ r.set_caught # "RedisError") =>
        /\ key \in DOMAIN redis'
        /\ json_loads(redis'[key].value).analysis_id = r.outcome.payload.analysis_id
        /\ redis'[key].ex = RoastTTL

\* C25: when the cache holds an entry for roast:{user_uuid}, generate_roast
\* returns that entry (same analysis_id), calls no roast chain and
\* schedules no save; on a miss that succeeds the response is stored under
\* roast:{user_uuid} with the roast TTL and exactly one save_analysis_to_db
\* task is scheduled, carrying the analysis_id of the response.
C25_RoastCaching ==
    [][RoastStep => RoastHit /\ RoastMissTask /\ RoastMissStored]_vars

\* The results a RedisCache method has when nothing is found.
Nothing(op) == IF op = "get" THEN Null ELSE False

CacheNeverRaises ==
    cres.called =>
        /\ cres.result.k # "raise"
        /\ cres.op = "get" => cres.result.k \in {"null", "val"}
        /\ cres.op # "get" => cres.result \in {True, False}
        /\ ~cres.sent => cres.result = Nothing(cres.op)
        /\ cres.caught # "" => cres.result = Nothing(cres.op)

\* A step of one of the four methods.
CacheStep == cres' # cres

\* The only step that changes the store is the server's own.
Expired ==
    /\ UNCHANGED <<cres, roasts, tasks>>
    /\ DOMAIN redis' \subseteq DOMAIN redis
    /\ \A key \in DOMAIN redis' : redis'[key] = redis[key]

NotConnected ==
    redis_client = "none" =>
        /\ redis' # redis => Expired
        /\ CacheStep => ~cres'.sent /\ cres'.result = Nothing(cres'.op)
        /\ RoastStep => roasts'.cached = Null /\ roasts'.chain_calls = 1

\* generate_roast takes an error of get for a miss.
FailureIsMiss ==
    RoastStep /\ roasts'.get_caught # "" =>
        /\ roasts'.cached = Null
        /\ roasts'.chain_calls = 1
        /\ roasts'.outcome.http \in {200, 500}

\* C30: no RedisCache method raises.  Not connected, get returns None and
\* set, delete and exists return False and the store is not touched;
\* connected, an error of the client gives the same None or False, and
\* generate_roast goes on as on a miss.
C30_CacheNeverRaises ==
    /\ [](CacheNeverRaises)
    /\ [][NotConnected /\ FailureIsMiss]_vars

\* get returned None although the server holds the key: the client raised.
C30_Witness ==
    /\ cres.called
    /\ cres.op = "get"
    /\ cres.caught = "RedisError"
    /\ cres.key \in DOMAIN redis
    /\ cres.result = Null
    /\ roasts.called
    /\ roasts.get_caught = "RedisError"
    /\ roasts.outcome.http = 200

\* The i-th request ran the windowed query, the data store failed and the
\* handler of _fetch_and_calculate_metrics gave the empty report.
FailureReport(i) ==
    /\ hist[i].queried
    /\ ~hist[i].query_ok
    /\ hist[i].report = empty_metrics

\* What the windowed query and the aggregation would give the j-th request,
\* the data store answering.
Fresh(j) ==
    fetch_and_calculate_metrics(store, hist[j].user, hist[j].days, hist[j].tz,
                                hist[j].at, TRUE)

\* C26 as stated: after the empty report of a data-store failure, every
\* later request with the same user, days and time zone in the same bucket
\* gets the empty report without the windowed query.
C26_Original ==
    \A j \in 1..Len(hist) : \A i \in 1..(j - 1) :
        (FailureReport(i) /\ SameKey(hist[i], hist[j])) =>
            /\ ~hist[j].queried
            /\ hist[j].report = empty_metrics

\* C26: after the empty report of a data-store failure, every later request
\* with the same user, days and time zone in the same bucket, fewer than
\* maxsize other keys having been used in between, gets the empty report
\* without the windowed query, whatever the data store holds by then.
C26_FailureMemoized ==
    \A j \in 1..Len(hist) : \A i \in 1..(j - 1) :
        (/\ FailureReport(i)
         /\ SameKey(hist[i], hist[j])
         /\ OtherKeysBetween(i, j) < maxsize) =>
            /\ ~hist[j].queried
            /\ hist[j].report = empty_metrics

\* A failure, then an upload, then the same request in the same bucket: it
\* gets the empty report although the data store would give a report with
\* a site.
C26_Witness ==
    /\ Len(hist) = 2
    /\ FailureReport(1)
    /\ SameKey(hist[1], hist[2])
    /\ hist[1].at < hist[2].at
    /\ ~hist[2].queried
    /\ hist[2].report = empty_metrics
    /\ Fresh(2).k = "val"
    /\ Fresh(2).v # empty_metrics
    /\ Fresh(2).v.overview.total_sites = 1



\* The percent the report lists for category c, 0 when it lists none.
ListedPercent(report, c) ==
    IF c \in DOMAIN report.categories THEN report.categories[c].percent ELSE 0

SumOfPercents(report) ==
    ListedPercent(report, "productive") + ListedPercent(report, "entertainment")
        + ListedPercent(report, "shopping") + ListedPercent(report, "other")

\* C29: in a report with total_time > 0, productivity_score is the percent
\* listed for 'productive' when the productive time is not zero and 0 when
\* 'productive' is not listed, and the percents of the k listed categories
\* sum to at most 100 and to more than 100 - k.
C29_PercentSums ==
    (ret.called /\ arg.fn = "report" /\ PctLocals(arg.times).total_time > 0) =>
        LET report == ret.value.v
            k == Cardinality(DOMAIN report.categories)
        IN  /\ ret.value.k = "val"
            /\ PctLocals(arg.times).cats["productive"] > 0 =>
                  /\ "productive" \in DOMAIN report.categories
                  /\ report.overview.productivity_score
                        = report.categories["productive"].percent
            /\ "productive" \notin DOMAIN report.categories =>
                  report.overview.productivity_score = 0
            /\ SumOfPercents(report) <= 100
            /\ SumOfPercents(report) > 100 - k

\* 29 s, 58 s and 13 s of 100 s: three categories listed with 28, 57 and
\* 13, which sum to 98, one more than 100 - 3.
C29_Witness ==
    /\ ret.called
    /\ arg.fn = "report"
    /\ arg.times = <<29, 58, 13, 0>>
    /\ ret.value.k = "val"
    /\ DOMAIN ret.value.v.categories = {"productive", "entertainment", "shopping"}
    /\ ret.value.v.overview.productivity_score = 28
    /\ ret.value.v.categories["productive"].percent = 28
    /\ SumOfPercents(ret.value.v) = 98

====
